---------------------------- MODULE Spec2Model ----------------------------
(***************************************************************************)
(* Model of ethtool-exporter: the SFF-8472 EEPROM reader with its          *)
(* read-coalescing field table and serial-keyed cache (module-eeprom.go)   *)
(* and the collection orchestrator that fans interfaces out over           *)
(* partitions and emits one record per interface (ethtool-exporter.go).    *)
(*                                                                         *)
(* Strings are sequences of byte values; a Go map is a function whose      *)
(* DOMAIN is its key set; a Go error is a string, "" standing for nil.     *)
(***************************************************************************)
EXTENDS Integers, Sequences, FiniteSets, TLC

VARIABLES
    ifaces,       \* DiscoverAndCollect: the sorted interface list of the pass
    parallel,     \* Exporter.parallel: the partitioning pattern
    phase,        \* position of the DiscoverAndCollect caller
    series,       \* the map "parallel": partition key -> interfaces
    workers,      \* per partition worker: position and locals of CollectIfacesSerially
    waitGroup,    \* sync.WaitGroup counter
    emitted,      \* records handed to Emit, in order
    moduleCache,  \* var moduleCache
    crashed,      \* "" or the reason the process died
    pass,         \* number of passes started
    probe,        \* what moduleInfo and TxrDiag return on each module of the run
    call,         \* the call under way or completed (function-level specifications)
    prev,         \* the call before it
    ethtool_socket, \* var ethtool_socket: -1, or the descriptor requests go through
    sockets,      \* the descriptors unix.Socket has returned, in order
    callers,      \* per goroutine inside ethtool(): position and locals
    ioctls        \* the descriptor of each SIOCETHTOOL request issued, in order

\* the descriptor is followed request by request in SpecSocket only; the
\* other specifications take a device-control request as one step
sockVars == <<ethtool_socket, sockets, callers, ioctls>>

passVars == <<ifaces, parallel, phase, series, workers, waitGroup, emitted,
              crashed, pass>>
mainVars == <<passVars, sockVars>>
vars == <<ifaces, parallel, phase, series, workers, waitGroup, emitted,
          moduleCache, crashed, pass, probe, call, prev, sockVars>>

-----------------------------------------------------------------------------
(* Program constants *)

TXR_MI_ALLOW_CACHE == 32767
TXR_MI_ALL         == 16383
TXR_MI_VENDOR      == 1
TXR_MI_OUI         == 2
TXR_MI_PRODUCT     == 4
TXR_MI_REVISION    == 8
TXR_MI_WAVELEN     == 16
TXR_MI_SERIAL      == 32
TXR_MI_DATE        == 64

ETH_MODULE_SFF_8472     == 2
ETH_MODULE_SFF_8472_LEN == 512

GAP_MERGE == 4
infty     == 65535

txr_DECODE_STRING == 0
txr_DECODE_INT    == 1
txr_DECODE_OUI    == 2

DIAG_OFFSET == 352
DIAG_LEN    == 10

(* Bounds of the model *)
MaxSerialLen == 4
MaxIfaces    == 3
MaxPasses    == 2
MaxCallers   == 2
MaxRequests  == 2
MaxValueLen  == 3

-----------------------------------------------------------------------------
(* Integer helpers *)

Min(a, b) == IF a < b THEN a ELSE b

\* uint32 subtraction.  Every subtraction of the program has a >= b (table
\* offsets are at least GAP_MERGE, a span ends after it starts, Read subtracts
\* only below eeprom_len), so the difference never wraps.
Sub32(a, b) == a - b

RECURSIVE BitAnd(_, _)
\* the & of two non-negative ints
BitAnd(a, b) ==
    IF a = 0 \/ b = 0 THEN 0
    ELSE (IF a % 2 = 1 /\ b % 2 = 1 THEN 1 ELSE 0) + 2 * BitAnd(a \div 2, b \div 2)

\* the &^ (and-not) of two non-negative ints
BitClear(a, b) == a - BitAnd(a, b)

RECURSIVE BitOr(_, _)
BitOr(a, b) ==
    IF a = 0 THEN b
    ELSE IF b = 0 THEN a
    ELSE (IF a % 2 = 1 \/ b % 2 = 1 THEN 1 ELSE 0) + 2 * BitOr(a \div 2, b \div 2)

-----------------------------------------------------------------------------
(* Strings over bytes *)

RECURSIVE SeqsUpTo(_, _)
\* all sequences over S of length at most n
SeqsUpTo(S, n) ==
    IF n = 0 THEN {<<>>}
    ELSE LET shorter == SeqsUpTo(S, n - 1)
         IN  shorter \cup {Append(s, c) : s \in {t \in shorter : Len(t) = n - 1}, c \in S}

\* validSerial counts: step over the runes of sn
RECURSIVE validSerialLoop(_, _, _, _)
validSerialLoop(sn, i, other_chars, alnum) ==
    IF i > Len(sn) THEN (alnum > 3 /\ other_chars = 0)
    ELSE LET r == sn[i] IN
         IF r < 32 \/ r > 126
         THEN validSerialLoop(sn, i + 1, other_chars + 1, alnum)
         ELSE IF (r >= 48 /\ r <= 57) \/ (r >= 65 /\ r <= 90) \/ (r <= 97 /\ r >= 122)
         THEN validSerialLoop(sn, i + 1, other_chars, alnum + 1)
         ELSE validSerialLoop(sn, i + 1, other_chars, alnum)

validSerial(sn) == validSerialLoop(sn, 1, 0, 0)

-----------------------------------------------------------------------------
(* The transceiver EEPROMs the devices of the model carry.  An image is    *)
(* given by its fields; every other byte, and the padding of a text field, *)
(* is a space (0x20).                                                      *)

ImageIds == {"acme", "othr", "short", "lower", "ctrl", "sn42", "dark"}

Images ==
    [id \in ImageIds |->
        [vendor   |-> IF id = "othr" THEN <<79, 84, 72, 82>>       \* "OTHR"
                      ELSE <<65, 67, 77, 69>>,                     \* "ACME"
         oui      |-> <<0, 144, 101>>,
         product  |-> <<83, 70, 80, 49, 48>>,                      \* "SFP10"
         revision |-> <<65, 49>>,                                  \* "A1"
         wavelen  |-> <<3, 82>>,                                   \* 850
         serial   |-> CASE id = "acme"  -> <<65, 66, 67, 49, 50, 51>>    \* "ABC123"
                        [] id = "othr"  -> <<65, 66, 67, 49, 50, 51>>    \* "ABC123"
                        [] id = "short" -> <<88, 89, 57>>                \* "XY9"
                        [] id = "lower" -> <<97, 98, 99, 100>>           \* "abcd"
                        [] id = "ctrl"  -> <<65, 66, 1, 67, 68, 49>>     \* "AB\x01CD1"
                        [] id = "sn42"  -> <<83, 78, 48, 48, 52, 50>>    \* "SN0042"
                        [] id = "dark"  -> <<68, 75, 48, 48, 48, 49>>,   \* "DK0001"
         mfgdate  |-> <<50, 48, 48, 49, 48, 49>>,                  \* "200101"
         diag     |-> IF id = "dark" THEN <<255, 255, 0, 1, 128, 0, 0, 0, 255, 254>>
                      ELSE <<39, 9, 128, 121, 11, 93, 20, 206, 22, 2>>]]

\* the byte of text field f [off, off+Len) at absolute offset i
FieldByte(text, off, i) == IF i - off + 1 <= Len(text) THEN text[i - off + 1] ELSE 32

\* the EEPROM byte of image id at offset i
ImageByte(id, i) ==
    LET img == Images[id] IN
    CASE i >= 20  /\ i < 36  -> FieldByte(img.vendor, 20, i)
      [] i >= 37  /\ i < 40  -> img.oui[i - 36]
      [] i >= 40  /\ i < 56  -> FieldByte(img.product, 40, i)
      [] i >= 56  /\ i < 60  -> FieldByte(img.revision, 56, i)
      [] i >= 60  /\ i < 62  -> img.wavelen[i - 59]
      [] i >= 68  /\ i < 84  -> FieldByte(img.serial, 68, i)
      [] i >= 84  /\ i < 92  -> FieldByte(img.mfgdate, 84, i)
      [] i >= 352 /\ i < 362 -> img.diag[i - 351]
      [] OTHER -> 32

-----------------------------------------------------------------------------
(* Device Handle: EthToolModule and the device-control requests *)

\* The driver's answer to ETHTOOL_GMODULEEEPROM on module m: the request is
\* rejected when its offset is one the device refuses, else len bytes come back.
ethtoolEepromRequest(m, offset, len) ==
    IF offset \in m.rej
    THEN [err |-> "input/output error", data |-> <<>>]
    ELSE [err |-> "", data |-> [k \in 1..len |-> ImageByte(m.image, offset + k - 1)]]

\* Read without the clamp of len to eeprom_len - offset
ReadNoClamp(m, offset, len) ==
    IF m.eeprom_len < 1
    THEN [err |-> "ethtool: No EEPROM to read.", isnil |-> TRUE, data |-> <<>>, reqs |-> <<>>]
    ELSE IF offset > m.eeprom_len
    THEN [err |-> "ethtool: Offset out of bounds.", isnil |-> TRUE, data |-> <<>>, reqs |-> <<>>]
    ELSE IF offset = m.eeprom_len
    THEN [err |-> "", isnil |-> TRUE, data |-> <<>>, reqs |-> <<>>]
    ELSE LET rsp == ethtoolEepromRequest(m, offset, len)
             req == <<[offset |-> offset, len |-> len]>>
         IN  IF rsp.err # ""
             THEN [err |-> rsp.err, isnil |-> TRUE, data |-> <<>>, reqs |-> req]
             ELSE [err |-> "", isnil |-> FALSE, data |-> rsp.data, reqs |-> req]

\* (e *EthToolModule) Read.  isnil: the returned slice is nil (capacity 0);
\* reqs: the device requests issued.
Read(m, offset, len) ==
    IF m.eeprom_len < 1
    THEN [err |-> "ethtool: No EEPROM to read.", isnil |-> TRUE, data |-> <<>>, reqs |-> <<>>]
    ELSE IF offset > m.eeprom_len
    THEN [err |-> "ethtool: Offset out of bounds.", isnil |-> TRUE, data |-> <<>>, reqs |-> <<>>]
    ELSE IF offset = m.eeprom_len
    THEN [err |-> "", isnil |-> TRUE, data |-> <<>>, reqs |-> <<>>]
    ELSE LET n   == IF Sub32(m.eeprom_len, offset) < len
                    THEN Sub32(m.eeprom_len, offset) ELSE len
             rsp == ethtoolEepromRequest(m, offset, n)
             req == <<[offset |-> offset, len |-> n]>>
         IN  IF rsp.err # ""
             THEN [err |-> rsp.err, isnil |-> TRUE, data |-> <<>>, reqs |-> req]
             ELSE [err |-> "", isnil |-> FALSE, data |-> rsp.data, reqs |-> req]

\* the slice taken from the start of the buffer, whatever lo is
SliceFromStart(rd, lo, hi) ==
    LET cap == IF rd.isnil THEN 0 ELSE ETH_MODULE_SFF_8472_LEN IN
    IF hi > cap
    THEN [panic |-> TRUE, bytes |-> <<>>]
    ELSE [panic |-> FALSE,
          bytes |-> [k \in 1..(hi - lo) |->
                        IF k <= Len(rd.data) THEN rd.data[k] ELSE 0]]

\* Go's buf[lo:hi] on a slice Read returned: the slice is backed by the
\* zero-initialised array eeprom.data, so it may be re-sliced up to the
\* array's capacity; a nil slice has capacity 0.  panic: index out of range.
Slice(rd, lo, hi) ==
    LET cap == IF rd.isnil THEN 0 ELSE ETH_MODULE_SFF_8472_LEN IN
    IF hi > cap
    THEN [panic |-> TRUE, bytes |-> <<>>]
    ELSE [panic |-> FALSE,
          bytes |-> [k \in 1..(hi - lo) |->
                        IF lo + k <= Len(rd.data) THEN rd.data[lo + k] ELSE 0]]

-----------------------------------------------------------------------------
(* Decoders *)

RECURSIVE lastcharOf(_, _)
\* fromLatin1: index after the last byte that is neither NUL nor space
lastcharOf(bytes, i) ==
    IF i = 0 THEN 0
    ELSE IF bytes[i] # 0 /\ bytes[i] # 32 THEN i
    ELSE lastcharOf(bytes, i - 1)

fromLatin1(bytes) == SubSeq(bytes, 1, lastcharOf(bytes, Len(bytes)))

DigitChar(d) == 48 + d

RECURSIVE Decimal(_)
\* fmt.Sprintf("%d", n) for n >= 0
Decimal(n) == IF n < 10 THEN <<DigitChar(n)>> ELSE Append(Decimal(n \div 10), DigitChar(n % 10))

HexChar(d) == IF d < 10 THEN 48 + d ELSE 97 + (d - 10)

\* fmt.Sprintf("%02x", b)
Hex2(b) == <<HexChar(b \div 16), HexChar(b % 16)>>

RECURSIVE bigEndian(_, _, _)
\* acc = 256*acc + d over the bytes of buf
bigEndian(buf, i, acc) ==
    IF i > Len(buf) THEN acc ELSE bigEndian(buf, i + 1, 256 * acc + buf[i])

decodeStatic(buf, decoder) ==
    CASE decoder = txr_DECODE_STRING -> fromLatin1(buf)
      [] decoder = txr_DECODE_OUI    -> Hex2(buf[1]) \o <<58>> \o Hex2(buf[2]) \o <<58>> \o Hex2(buf[3])
      [] decoder = txr_DECODE_INT    -> Decimal(bigEndian(buf, 1, 0))

-----------------------------------------------------------------------------
(* EEPROM Field Registry *)

txrEepromStatic ==
    << [name |-> "vendor",   offset |-> 20,    length |-> 16, flag |-> TXR_MI_VENDOR,   decoder |-> txr_DECODE_STRING],
       [name |-> "oui",      offset |-> 37,    length |-> 3,  flag |-> TXR_MI_OUI,      decoder |-> txr_DECODE_OUI],
       [name |-> "product",  offset |-> 40,    length |-> 16, flag |-> TXR_MI_PRODUCT,  decoder |-> txr_DECODE_STRING],
       [name |-> "revision", offset |-> 56,    length |-> 4,  flag |-> TXR_MI_REVISION, decoder |-> txr_DECODE_STRING],
       [name |-> "wavelen",  offset |-> 60,    length |-> 2,  flag |-> TXR_MI_WAVELEN,  decoder |-> txr_DECODE_INT],
       [name |-> "serial",   offset |-> 68,    length |-> 16, flag |-> TXR_MI_SERIAL,   decoder |-> txr_DECODE_STRING],
       [name |-> "mfgdate",  offset |-> 84,    length |-> 8,  flag |-> TXR_MI_WAVELEN,  decoder |-> txr_DECODE_STRING],
       [name |-> "--last--", offset |-> infty, length |-> 0,  flag |-> 0,               decoder |-> 0] >>

EmptyTags == [n \in {} |-> <<>>]

\* m[k] = v on a Go map
MapSet(m, k, v) == [x \in (DOMAIN m) \cup {k} |-> IF x = k THEN v ELSE m[x]]

RECURSIVE decodeQuery(_, _, _, _, _)
\* the inner loop of moduleInfo: decode query[j..query_len-1] out of the buffer rd
decodeQuery(rd, query, query_len, j, ret) ==
    IF j >= query_len THEN [panic |-> FALSE, ret |-> ret]
    ELSE LET ddef    == txrEepromStatic[query[j + 1].def]
             buf_pos == query[j + 1].buf_pos
             buf_end == buf_pos + ddef.length
             sl      == Slice(rd, buf_pos, buf_end)
         IN  IF sl.panic THEN [panic |-> TRUE, ret |-> ret]
             ELSE decodeQuery(rd, query, query_len, j + 1,
                              MapSet(ret, ddef.name, decodeStatic(sl.bytes, ddef.decoder)))

\* the flush test with GAP_MERGE left out: any gap at all splits the span
mustFlushNoGap(query_len, query_end, qdef) ==
    query_len > 0 /\ query_end < qdef.offset

\* the flush test of moduleInfo's outer loop
mustFlush(query_len, query_end, qdef) ==
    query_len > 0 /\ query_end < Sub32(qdef.offset, GAP_MERGE)

RECURSIVE moduleInfoLoop(_, _, _, _, _, _, _, _, _)
\* the outer loop of moduleInfo over txrEepromStatic[i..]
moduleInfoLoop(m, flags, i, query, query_start, query_end, query_len, ret, reqs) ==
    IF i > Len(txrEepromStatic)
    THEN [ret |-> ret, err |-> "", panic |-> FALSE, reqs |-> reqs]
    ELSE
    LET qdef  == txrEepromStatic[i]
        flush == mustFlush(query_len, query_end, qdef)
        rd    == Read(m, query_start, Sub32(query_end, query_start))
        dec   == decodeQuery(rd, query, query_len, 0, ret)
        reqs1 == IF flush THEN reqs \o rd.reqs ELSE reqs
        ret1  == IF flush THEN dec.ret ELSE ret
        len1  == IF flush THEN 0 ELSE query_len
        sel   == BitAnd(qdef.flag, flags) # 0
        start2 == IF sel /\ len1 = 0 THEN qdef.offset ELSE query_start
        query2 == IF sel
                  THEN [query EXCEPT ![len1 + 1] =
                            [def |-> i, buf_pos |-> Sub32(qdef.offset, start2)]]
                  ELSE query
        len2   == IF sel THEN len1 + 1 ELSE len1
        end2   == IF sel THEN qdef.offset + qdef.length ELSE query_end
    IN  IF flush /\ rd.err # ""
        THEN [ret |-> EmptyTags, err |-> rd.err, panic |-> FALSE, reqs |-> reqs1]
        ELSE IF flush /\ dec.panic
        THEN [ret |-> EmptyTags, err |-> "", panic |-> TRUE, reqs |-> reqs1]
        ELSE moduleInfoLoop(m, flags, i + 1, query2, start2, end2, len2, ret1, reqs1)

\* fmt.Errorf("Unsupported module type: %v", e.tpe)
UnsupportedModuleType == "Unsupported module type"

\* moduleInfo without the test of the module class
moduleInfoAnyClass(m, flags) ==
    moduleInfoLoop(m, flags, 1,
                   [k \in 1..Len(txrEepromStatic) |-> [def |-> 0, buf_pos |-> 0]],
                   0, 0, 0, EmptyTags, <<>>)

\* (e *EthToolModule) moduleInfo
moduleInfo(m, flags) ==
    IF m.tpe # ETH_MODULE_SFF_8472
    THEN [ret |-> EmptyTags, err |-> UnsupportedModuleType, panic |-> FALSE, reqs |-> <<>>]
    ELSE moduleInfoLoop(m, flags, 1,
                        [k \in 1..Len(txrEepromStatic) |-> [def |-> 0, buf_pos |-> 0]],
                        0, 0, 0, EmptyTags, <<>>)

-----------------------------------------------------------------------------
(* The modules of the model *)

\* a module handle together with the device behind it: rej is the set of
\* offsets at which the device rejects a read
Module(tpe, eeprom_len, image, rej) ==
    [tpe |-> tpe, eeprom_len |-> eeprom_len, image |-> image, rej |-> rej]

\* the modules ModuleInfo is called on in SpecCache: two with the same valid
\* serial and different vendors, one with an invalid serial, one that rejects
\* the mfgdate read, one whose EEPROM ends where mfgdate starts, one of an
\* unsupported class
CacheModules ==
    { Module(ETH_MODULE_SFF_8472, ETH_MODULE_SFF_8472_LEN, "acme", {}),
      Module(ETH_MODULE_SFF_8472, ETH_MODULE_SFF_8472_LEN, "othr", {}),
      Module(ETH_MODULE_SFF_8472, ETH_MODULE_SFF_8472_LEN, "short", {}),
      Module(ETH_MODULE_SFF_8472, ETH_MODULE_SFF_8472_LEN, "sn42", {84}),
      Module(ETH_MODULE_SFF_8472, 84, "acme", {}),
      Module(1, 256, "acme", {}) }

\* the flag sets ModuleInfo is called with in SpecCache
CacheFlags == {TXR_MI_ALLOW_CACHE, TXR_MI_ALL}

-----------------------------------------------------------------------------
(* Diagnostic Decoder *)

\* the word read with its bytes swapped
diagWordLittleEndian(rd, i) ==
    LET sl == Slice(rd, i * 2, i * 2 + 2) IN
    IF sl.panic THEN -1 ELSE sl.bytes[2] * 256 + sl.bytes[1]

\* binary.BigEndian.Uint16(data[i*2:i*2+2]) for i = 0..4; panics on a nil slice
diagWord(rd, i) ==
    LET sl == Slice(rd, i * 2, i * 2 + 2) IN
    IF sl.panic THEN -1 ELSE sl.bytes[1] * 256 + sl.bytes[2]

\* (e *EthToolModule) TxrDiag.  A measurement is the raw word over its divisor
\* (the txr_MULT_* factors 1/256, 1/10000, 1/500, 1/10000).
TxrDiag(m) ==
    IF m.tpe # ETH_MODULE_SFF_8472
    THEN [isnil |-> TRUE, metrics |-> <<>>, err |-> UnsupportedModuleType,
          panic |-> FALSE, reqs |-> <<>>]
    ELSE LET rd == Read(m, DIAG_OFFSET, DIAG_LEN)
             w  == [i \in 0..4 |-> diagWord(rd, i)]
         IN  IF rd.err # ""
             THEN [isnil |-> TRUE, metrics |-> <<>>, err |-> rd.err,
                   panic |-> FALSE, reqs |-> rd.reqs]
             ELSE IF \E i \in 0..4 : w[i] < 0
             THEN [isnil |-> TRUE, metrics |-> <<>>, err |-> "",
                   panic |-> TRUE, reqs |-> rd.reqs]
             ELSE [isnil |-> FALSE,
                   metrics |-> [temperature_C |-> <<w[0], 256>>,
                                voltage_V     |-> <<w[1], 10000>>,
                                bias_mA       |-> <<w[2], 500>>,
                                transmit_mW   |-> <<w[3], 10000>>,
                                receive_mW    |-> <<w[4], 10000>>],
                   err |-> "", panic |-> FALSE, reqs |-> rd.reqs]

-----------------------------------------------------------------------------
(* The EEPROMs do not change during a run, so moduleInfo and TxrDiag are   *)
(* functions of the module and the flags.  A specification that calls them *)
(* in many states evaluates them once, in its initial state, into probe;   *)
(* moduleInfoAt and TxrDiagAt read that table.                             *)

NoProbe == [info |-> <<>>, diag |-> <<>>]

ProbeOf(modules, flagsets) ==
    [info |-> [k \in modules \X flagsets |-> moduleInfo(k[1], k[2])],
     diag |-> [m \in modules |-> TxrDiag(m)]]

moduleInfoAt(m, flags) == probe.info[<<m, flags>>]

TxrDiagAt(m) == probe.diag[m]

-----------------------------------------------------------------------------
(* Serial-Keyed Cache: ModuleInfo, by its steps *)

\* moduleInfo(TXR_MI_SERIAL), the first read of the allow-cache branch
ModuleInfoSerial(m) == moduleInfoAt(m, TXR_MI_SERIAL)

\* the lookup never finding an entry
cacheHitNever(cache, have_sn, sn) == FALSE

\* the lookup without the validSerial test
cacheHitNoValidate(cache, have_sn, sn) ==
    have_sn /\ sn \in DOMAIN cache

\* if have_sn && validSerial(sn) { if ret, found := moduleCache[sn]; found
cacheHit(cache, have_sn, sn) ==
    have_sn /\ validSerial(sn) /\ sn \in DOMAIN cache

\* if have_sn { flags = flags &^ TXR_MI_SERIAL }; moduleInfo(flags)
ModuleInfoFull(m, flags, have_sn) ==
    moduleInfoAt(m, IF have_sn THEN BitClear(flags, TXR_MI_SERIAL) ELSE flags)

\* moduleCache[sn] = retcopy
cacheStore(cache, sn, ret) == MapSet(cache, sn, ret)

\* ModuleInfo with the test flags == TXR_MI_ALLOW_CACHE left out: every call
\* reads the serial, looks it up and stores
ModuleInfoAlwaysCaches(m, flags, cache) ==
    LET ser      == ModuleInfoSerial(m)
        serFail  == ser.err # "" \/ ser.panic
        have_sn  == ~serFail /\ "serial" \in DOMAIN ser.ret
        sn       == IF have_sn THEN ser.ret["serial"] ELSE <<>>
        full     == ModuleInfoFull(m, flags, have_sn)
        ret      == IF have_sn THEN MapSet(full.ret, "serial", sn) ELSE full.ret
    IN  IF serFail
        THEN [ret |-> EmptyTags, err |-> ser.err, panic |-> ser.panic, reqs |-> ser.reqs,
              hit |-> FALSE, cache |-> cache]
        ELSE IF cacheHit(cache, have_sn, sn)
        THEN [ret |-> cache[sn], err |-> "", panic |-> FALSE, reqs |-> ser.reqs,
              hit |-> TRUE, cache |-> cache]
        ELSE IF full.err # "" \/ full.panic
        THEN [ret |-> EmptyTags, err |-> full.err, panic |-> full.panic,
              reqs |-> ser.reqs \o full.reqs, hit |-> FALSE, cache |-> cache]
        ELSE [ret |-> ret, err |-> "", panic |-> FALSE, reqs |-> ser.reqs \o full.reqs,
              hit |-> FALSE,
              cache |-> IF have_sn THEN cacheStore(cache, sn, ret) ELSE cache]

\* (e *EthToolModule) ModuleInfo run to completion against the cache.
\* hit: served from the cache; cache: moduleCache afterwards.
ModuleInfo(m, flags, cache) ==
    LET useCache == (flags = TXR_MI_ALLOW_CACHE)
        ser      == ModuleInfoSerial(m)
        serFail  == useCache /\ (ser.err # "" \/ ser.panic)
        have_sn  == useCache /\ ~serFail /\ "serial" \in DOMAIN ser.ret
        sn       == IF have_sn THEN ser.ret["serial"] ELSE <<>>
        reqs0    == IF useCache THEN ser.reqs ELSE <<>>
        full     == ModuleInfoFull(m, flags, have_sn)
        ret      == IF have_sn THEN MapSet(full.ret, "serial", sn) ELSE full.ret
    IN  IF serFail
        THEN [ret |-> EmptyTags, err |-> ser.err, panic |-> ser.panic, reqs |-> reqs0,
              hit |-> FALSE, cache |-> cache]
        ELSE IF cacheHit(cache, have_sn, sn)
        THEN [ret |-> cache[sn], err |-> "", panic |-> FALSE, reqs |-> reqs0,
              hit |-> TRUE, cache |-> cache]
        ELSE IF full.err # "" \/ full.panic
        THEN [ret |-> EmptyTags, err |-> full.err, panic |-> full.panic,
              reqs |-> reqs0 \o full.reqs, hit |-> FALSE, cache |-> cache]
        ELSE [ret |-> ret, err |-> "", panic |-> FALSE, reqs |-> reqs0 \o full.reqs,
              hit |-> FALSE,
              cache |-> IF have_sn THEN cacheStore(cache, sn, ret) ELSE cache]

-----------------------------------------------------------------------------
(* State shared by the function-level specifications: no pass is running *)

NoCall     == [op |-> "none"]
EmptyCache == [sn \in {} |-> EmptyTags]

\* no request has been issued: var ethtool_socket int = -1
SocketIdle ==
    /\ ethtool_socket = -1
    /\ sockets = <<>>
    /\ callers = <<>>
    /\ ioctls = <<>>

PassIdle ==
    /\ ifaces = <<>>
    /\ parallel = "none"
    /\ phase = "idle"
    /\ series = <<>>
    /\ workers = <<>>
    /\ waitGroup = 0
    /\ emitted = <<>>
    /\ crashed = ""
    /\ pass = 0

MainIdle == PassIdle /\ SocketIdle

\* the function-level specifications evaluate the operators directly
Direct == probe = NoProbe

-----------------------------------------------------------------------------
(* SpecSerial: validSerial applied to every serial over SerialChars of     *)
(* length at most MaxSerialLen, and to the serials of the images           *)

SerialChars == {1, 32, 45, 48, 65, 97, 122, 127}

SerialInputs ==
    SeqsUpTo(SerialChars, MaxSerialLen) \cup {Images[id].serial : id \in ImageIds}

InitSerial ==
    /\ MainIdle
    /\ Direct
    /\ moduleCache = EmptyCache
    /\ prev = NoCall
    /\ call \in {[op |-> "validSerial", sn |-> s, done |-> FALSE, ret |-> FALSE] :
                    s \in SerialInputs}

CallValidSerial ==
    /\ call.op = "validSerial"
    /\ ~call.done
    /\ call' = [call EXCEPT !.done = TRUE, !.ret = validSerial(call.sn)]
    /\ UNCHANGED <<mainVars, probe, moduleCache, prev>>

NextSerial == CallValidSerial

SpecSerial == InitSerial /\ [][NextSerial]_vars

IsAlnumChar(r) == (r >= 48 /\ r <= 57) \/ (r >= 65 /\ r <= 90) \/ (r >= 97 /\ r <= 122)
IsPrintable(r) == r >= 32 /\ r <= 126

\* C7: validSerial(sn) is true exactly when sn has more than 3 alphanumeric
\* characters (digits, upper-case and lower-case letters) and no character
\* outside printable ASCII 0x20..0x7e.
C7_ValidSerialIffAlnumPrintable ==
    (call.op = "validSerial" /\ call.done) =>
        (call.ret <=>
            /\ Cardinality({i \in 1..Len(call.sn) : IsAlnumChar(call.sn[i])}) > 3
            /\ \A i \in 1..Len(call.sn) : IsPrintable(call.sn[i]))

-----------------------------------------------------------------------------
(* SpecRead: one Read(offset, length) on a module of EEPROM length L *)

ReadLens    == {0, 1, 68, 84, 100, 352, 360, 512}
ReadOffsets == {0, 20, 68, 84, 352, 512, 600}
ReadLengths == {2, 10, 16, 42}

InitRead ==
    /\ MainIdle
    /\ Direct
    /\ moduleCache = EmptyCache
    /\ prev = NoCall
    /\ \E L \in ReadLens, offset \in ReadOffsets, length \in ReadLengths :
       \E rej \in {{}, {offset}} :
          call = [op |-> "Read", m |-> Module(ETH_MODULE_SFF_8472, L, "acme", rej),
                  offset |-> offset, length |-> length, done |-> FALSE,
                  rd |-> [err |-> "", isnil |-> TRUE, data |-> <<>>, reqs |-> <<>>]]

CallRead ==
    /\ call.op = "Read"
    /\ ~call.done
    /\ call' = [call EXCEPT !.done = TRUE,
                            !.rd = Read(call.m, call.offset, call.length)]
    /\ UNCHANGED <<mainVars, probe, moduleCache, prev>>

NextRead == CallRead

SpecRead == InitRead /\ [][NextRead]_vars

\* C10: Read(offset, length) with EEPROM length L fails with no device request
\* when L = 0 or offset > L; returns an empty result, no error and no device
\* request when offset = L; otherwise issues exactly one device request of
\* length min(length, L - offset) and, the device accepting it, returns exactly
\* that many bytes (the device rejecting it, Read fails with the device's error).
C10_ReadContract ==
    (call.op = "Read" /\ call.done) =>
        LET L == call.m.eeprom_len
            n == Min(call.length, L - call.offset)
        IN  /\ (L = 0 \/ call.offset > L) =>
                   (call.rd.err # "" /\ call.rd.reqs = <<>>)
            /\ (L > 0 /\ call.offset = L) =>
                   (call.rd.err = "" /\ call.rd.data = <<>> /\ call.rd.reqs = <<>>)
            /\ (L > 0 /\ call.offset < L) =>
                   /\ call.rd.reqs = <<[offset |-> call.offset, len |-> n]>>
                   /\ (call.offset \notin call.m.rej) =>
                          (call.rd.err = "" /\ Len(call.rd.data) = n
                           /\ \A k \in 1..n :
                                 call.rd.data[k] = ImageByte(call.m.image, call.offset + k - 1))
                   /\ (call.offset \in call.m.rej) => call.rd.err # ""

\* a read clamped by the EEPROM length has completed
C10_Witness ==
    /\ call.op = "Read" /\ call.done
    /\ call.m.eeprom_len = 360 /\ call.offset = 352 /\ call.length = 10
    /\ call.rd.err = "" /\ Len(call.rd.data) = 8

-----------------------------------------------------------------------------
(* SpecInfo: one moduleInfo(flags) call, for every flag set over the seven *)
(* field bits and the two meta values, on a handful of modules             *)

InfoModules ==
    { Module(ETH_MODULE_SFF_8472, ETH_MODULE_SFF_8472_LEN, "acme", {}),
      Module(ETH_MODULE_SFF_8472, ETH_MODULE_SFF_8472_LEN, "lower", {}),
      Module(ETH_MODULE_SFF_8472, ETH_MODULE_SFF_8472_LEN, "dark", {}),
      Module(ETH_MODULE_SFF_8472, 256, "ctrl", {}),
      Module(ETH_MODULE_SFF_8472, 92, "othr", {}),
      Module(ETH_MODULE_SFF_8472, ETH_MODULE_SFF_8472_LEN, "acme", {68}),
      Module(ETH_MODULE_SFF_8472, 68, "acme", {}),
      Module(ETH_MODULE_SFF_8472, 48, "acme", {}),
      Module(1, 256, "acme", {}) }

InfoFlags == 0..(2 * TXR_MI_DATE - 1) \cup {TXR_MI_ALL, TXR_MI_ALLOW_CACHE}

InitInfo ==
    /\ MainIdle
    /\ Direct
    /\ moduleCache = EmptyCache
    /\ prev = NoCall
    /\ \E m \in InfoModules, flags \in InfoFlags :
          call = [op |-> "moduleInfo", m |-> m, flags |-> flags, done |-> FALSE,
                  ret |-> EmptyTags, err |-> "", panic |-> FALSE, reqs |-> <<>>]

CallModuleInfoRaw ==
    /\ call.op = "moduleInfo"
    /\ ~call.done
    /\ \E r \in {moduleInfo(call.m, call.flags)} :
       call' = [call EXCEPT !.done = TRUE, !.ret = r.ret, !.err = r.err,
                            !.panic = r.panic, !.reqs = r.reqs]
    /\ UNCHANGED <<mainVars, probe, moduleCache, prev>>

NextInfo == CallModuleInfoRaw

SpecInfo == InitInfo /\ [][NextInfo]_vars

\* the real fields of the table (all but the "--last--" sentinel)
FieldIdx == 1..(Len(txrEepromStatic) - 1)

FieldEnd(i) == txrEepromStatic[i].offset + txrEepromStatic[i].length

\* the fields a flag set selects
SelectedFields(flags) == {i \in FieldIdx : BitAnd(txrEepromStatic[i].flag, flags) # 0}

\* a selected field i starts a run: no selected field before it, or the
\* closest one ends more than 4 bytes before i starts
StartsRun(sel, i) ==
    \A j \in sel : j < i =>
        \E k \in sel : k < i /\ k >= j /\
            (\A l \in sel : ~(k < l /\ l < i)) /\
            txrEepromStatic[i].offset - FieldEnd(k) > 4

\* a selected field i ends a run: no selected field after it, or the next one
\* starts more than 4 bytes after i ends
EndsRun(sel, i) ==
    \A j \in sel : j > i =>
        \E k \in sel : k > i /\ k <= j /\
            (\A l \in sel : ~(i < l /\ l < k)) /\
            txrEepromStatic[k].offset - FieldEnd(i) > 4

\* one read per maximal run: from the run's first offset to its last field's end
ExpectedReads(flags) ==
    LET sel == SelectedFields(flags) IN
    { [offset |-> txrEepromStatic[a].offset,
       len    |-> FieldEnd(b) - txrEepromStatic[a].offset] :
        <<a, b>> \in { p \in sel \X sel :
                        /\ p[1] <= p[2]
                        /\ StartsRun(sel, p[1])
                        /\ EndsRun(sel, p[2])
                        /\ \A e \in sel : (p[1] <= e /\ e < p[2]) => ~EndsRun(sel, e) } }

\* a supported module whose EEPROM covers the whole table and serves every read
HealthyModule(m) ==
    /\ m.tpe = ETH_MODULE_SFF_8472
    /\ m.eeprom_len = ETH_MODULE_SFF_8472_LEN
    /\ m.rej = {}

\* C9: for every flag set on a supported module, moduleInfo issues exactly one
\* device read per maximal run of selected fields whose gaps are at most
\* GAP_MERGE (4) bytes, spanning the run's first offset to its last field's end,
\* in ascending order of offset.
C9_ReadCoalescing ==
    (call.op = "moduleInfo" /\ call.done /\ HealthyModule(call.m)) =>
        /\ call.err = "" /\ ~call.panic
        /\ {call.reqs[k] : k \in 1..Len(call.reqs)} = ExpectedReads(call.flags)
        /\ Len(call.reqs) = Cardinality(ExpectedReads(call.flags))
        /\ \A k \in 1..(Len(call.reqs) - 1) : call.reqs[k].offset < call.reqs[k + 1].offset

\* vendor and product are 4 bytes apart: one read spanning both has been issued
C9_WitnessGap4 ==
    /\ call.op = "moduleInfo" /\ call.done /\ HealthyModule(call.m)
    /\ call.flags = TXR_MI_VENDOR + TXR_MI_PRODUCT
    /\ call.reqs = <<[offset |-> 20, len |-> 36]>>

-----------------------------------------------------------------------------
(* SpecCache: any sequence of ModuleInfo calls, one after the other, on a  *)
(* set of modules, against the shared moduleCache                          *)

\* the flag sets ModuleInfo hands to moduleInfo
ProbeFlags ==
    CacheFlags \cup {TXR_MI_SERIAL, BitClear(TXR_MI_ALLOW_CACHE, TXR_MI_SERIAL),
                     BitClear(TXR_MI_ALL, TXR_MI_SERIAL)}

InitCache ==
    /\ MainIdle
    /\ probe = ProbeOf(CacheModules, ProbeFlags)
    /\ moduleCache = EmptyCache
    /\ prev = NoCall
    /\ call = NoCall

\* A panic ends the process: no call follows it.
CallModuleInfo ==
    /\ (call.op = "ModuleInfo" => ~call.panic)
    /\ \E m \in CacheModules, flags \in CacheFlags :
          \E r \in {ModuleInfo(m, flags, moduleCache)} :
          /\ call' = [op |-> "ModuleInfo", m |-> m, flags |-> flags,
                      ret |-> r.ret, err |-> r.err, panic |-> r.panic,
                      reqs |-> r.reqs, hit |-> r.hit]
          /\ moduleCache' = r.cache
    /\ prev' = call
    /\ UNCHANGED <<mainVars, probe>>

NextCache == CallModuleInfo

SpecCache == InitCache /\ [][NextCache]_vars

\* the read of the 16-byte serial field at 0x44
SerialRead == [offset |-> 68, len |-> 16]

\* two consecutive allow-cache calls on the same module, both succeeding, the
\* serial validating
ConsecutiveCachedCalls ==
    /\ call.op = "ModuleInfo" /\ prev.op = "ModuleInfo"
    /\ call.m = prev.m
    /\ call.flags = TXR_MI_ALLOW_CACHE /\ prev.flags = TXR_MI_ALLOW_CACHE
    /\ prev.err = "" /\ ~prev.panic
    /\ validSerial(Images[prev.m.image].serial)

FullReadRequests ==
    <<SerialRead, [offset |-> 20, len |-> 42], [offset |-> 84, len |-> 8]>>

\* an allow-cache call that completed on a module whose serial does not validate
InvalidSerialCall ==
    /\ call.op = "ModuleInfo"
    /\ call.flags = TXR_MI_ALLOW_CACHE
    /\ call.err = "" /\ ~call.panic
    /\ ~validSerial(Images[call.m.image].serial)

\* C8: a module whose serial does not validate is never served from the cache:
\* every allow-cache ModuleInfo call on it does the full field read again, also
\* when the cache holds an entry under the same serial string.
C8_InvalidSerialBypassesCache ==
    InvalidSerialCall =>
        /\ ~call.hit
        /\ call.reqs = FullReadRequests
        /\ call.ret["vendor"] = Images[call.m.image].vendor

\* the second call on a module with an invalid serial: the cache already holds
\* an entry under that serial, and the full read is done again
C8_Witness ==
    /\ InvalidSerialCall
    /\ prev.op = "ModuleInfo" /\ prev.m = call.m
    /\ prev.flags = TXR_MI_ALLOW_CACHE /\ prev.err = "" /\ ~prev.panic
    /\ Images[call.m.image].serial \in DOMAIN moduleCache
    /\ ~call.hit /\ Len(call.reqs) = 3

-----------------------------------------------------------------------------
(* Exporter: construction, interface discovery and partitioning *)

RECURSIVE GetTxrInfoFlagsLoop(_, _, _)
\* the loop of GetTxrInfoFlags over the names str[i..]
GetTxrInfoFlagsLoop(str, i, ret) ==
    IF i > Len(str) THEN [ret |-> ret, err |-> ""]
    ELSE LET info == str[i]
             defs == {d \in 1..Len(txrEepromStatic) : txrEepromStatic[d].name = info}
             bits == IF defs = {} THEN 0
                     ELSE txrEepromStatic[CHOOSE d \in defs : TRUE].flag
         IN  IF info = "ALL"
             THEN GetTxrInfoFlagsLoop(str, i + 1, BitOr(ret, TXR_MI_ALL))
             ELSE IF info = "CACHE"
             THEN GetTxrInfoFlagsLoop(str, i + 1, BitOr(ret, TXR_MI_ALLOW_CACHE))
             ELSE IF defs = {}
             THEN [ret |-> 0, err |-> "Unknown entry"]
             ELSE GetTxrInfoFlagsLoop(str, i + 1, BitOr(ret, bits))

GetTxrInfoFlags(str) == GetTxrInfoFlagsLoop(str, 1, 0)

transcieverFullLabels ==
    <<"iface", "error", "vendor", "revision", "product", "serial", "wavelen", "mfgdate">>

\* NewExporter: flagList is "CACHE" followed by transcieverFullLabels[2:]
txrInfoFlags ==
    GetTxrInfoFlags(<<"CACHE">> \o SubSeq(transcieverFullLabels, 3,
                                          Len(transcieverFullLabels))).ret

\* interface names, as byte sequences
enp1s2f0 == <<101, 110, 112, 49, 115, 50, 102, 48>>
enp1s2f1 == <<101, 110, 112, 49, 115, 50, 102, 49>>
lo       == <<108, 111>>

\* what the path globs can match, in sort.Strings order
IfacePool == <<enp1s2f0, enp1s2f1, lo>>

\* GetIfaces: the matches, sorted and without duplicates; at most MaxIfaces
IfaceLists ==
    {SelectSeq(IfacePool, LAMBDA n : n \in S) :
        S \in {T \in SUBSET {IfacePool[i] : i \in 1..Len(IfacePool)} :
                  Cardinality(T) <= MaxIfaces}}

\* the -parallel patterns of the model: the default, the documented example
\* and a pattern without a capture group that does not match every name
Patterns == {"^(.*)$", "^(.*[^0-9])", "^enp"}

IsDigit(b) == b >= 48 /\ b <= 57
IsLower(b) == b >= 97 /\ b <= 122

\* regexp.FindStringSubmatch for the patterns of the model: nil, or the whole
\* match followed by the capture groups
FindStringSubmatch(pattern, iface) ==
    CASE pattern = "^(.*)$" ->
            [isnil |-> FALSE, groups |-> <<iface, iface>>]
      [] pattern = "^(.*[^0-9])" ->
            LET ends == {i \in 1..Len(iface) : ~IsDigit(iface[i])}
                last == CHOOSE i \in ends : \A j \in ends : j <= i
            IN  IF ends = {} THEN [isnil |-> TRUE, groups |-> <<>>]
                ELSE [isnil |-> FALSE,
                      groups |-> <<SubSeq(iface, 1, last), SubSeq(iface, 1, last)>>]
      [] pattern = "^enp" ->
            IF Len(iface) >= 3 /\ SubSeq(iface, 1, 3) = <<101, 110, 112>>
            THEN [isnil |-> FALSE, groups |-> <<<<101, 110, 112>>>>]
            ELSE [isnil |-> TRUE, groups |-> <<>>]
      [] pattern = "^([a-z]+)([0-9]*)" ->
            LET nl == CHOOSE n \in 0..Len(iface) :
                        /\ \A i \in 1..n : IsLower(iface[i])
                        /\ (n < Len(iface) => ~IsLower(iface[n + 1]))
                nd == CHOOSE n \in nl..Len(iface) :
                        /\ \A i \in (nl + 1)..n : IsDigit(iface[i])
                        /\ (n < Len(iface) => ~IsDigit(iface[n + 1]))
            IN  IF nl = 0 THEN [isnil |-> TRUE, groups |-> <<>>]
                ELSE [isnil |-> FALSE,
                      groups |-> <<SubSeq(iface, 1, nd), SubSeq(iface, 1, nl),
                                   SubSeq(iface, nl + 1, nd)>>]

RECURSIVE Join(_, _)
\* strings.Join(elems, sep)
Join(elems, sep) ==
    IF elems = <<>> THEN <<>>
    ELSE IF Len(elems) = 1 THEN elems[1]
    ELSE elems[1] \o sep \o Join(Tail(elems), sep)

\* "\x01!nil!"
NilKey == <<1, 33, 110, 105, 108, 33>>

\* a fallback key that is the empty string
partitionKeyEmptyFallback(pattern, iface) ==
    LET groups == FindStringSubmatch(pattern, iface) IN
    IF groups.isnil THEN <<>> ELSE Join(Tail(groups.groups), <<2>>)

\* the partition key of one interface
partitionKey(pattern, iface) ==
    LET groups == FindStringSubmatch(pattern, iface) IN
    IF groups.isnil THEN NilKey ELSE Join(Tail(groups.groups), <<2>>)

RECURSIVE partitionLoop(_, _, _, _)
\* the loop of DiscoverAndCollect that fills the map "parallel"
partitionLoop(pattern, list, i, map) ==
    IF i > Len(list) THEN map
    ELSE LET key    == partitionKey(pattern, list[i])
             values == IF key \in DOMAIN map THEN Append(map[key], list[i])
                       ELSE <<list[i]>>
         IN  partitionLoop(pattern, list, i + 1, MapSet(map, key, values))

NoSeries == [k \in {} |-> <<>>]

\* the partition map with every series in descending order
partitionsReversed(pattern, list) ==
    LET map == partitionLoop(pattern, list, 1, NoSeries) IN
    [k \in DOMAIN map |->
        [n \in 1..Len(map[k]) |-> map[k][Len(map[k]) + 1 - n]]]

partitions(pattern, list) == partitionLoop(pattern, list, 1, NoSeries)

-----------------------------------------------------------------------------
(* Collection Orchestrator: the devices behind the interfaces *)

\* the modules a device reports in the passes of Spec: a healthy one, one of
\* another vendor that presents the same serial, an
\* unsupported class, no EEPROM, an EEPROM ending at the serial field (0x44),
\* at the diagnostic page (0x160) and before it, and a device that rejects
\* the read of the first span
MainModules ==
    { Module(ETH_MODULE_SFF_8472, ETH_MODULE_SFF_8472_LEN, "acme", {}),
      Module(ETH_MODULE_SFF_8472, ETH_MODULE_SFF_8472_LEN, "othr", {}),
      Module(1, 256, "acme", {}),
      Module(ETH_MODULE_SFF_8472, 0, "acme", {}),
      Module(ETH_MODULE_SFF_8472, 68, "acme", {}),
      Module(ETH_MODULE_SFF_8472, DIAG_OFFSET, "acme", {}),
      Module(ETH_MODULE_SFF_8472, 256, "acme", {}),
      Module(ETH_MODULE_SFF_8472, ETH_MODULE_SFF_8472_LEN, "sn42", {20}) }

\* the answers of ETHTOOL_GMODULEINFO: an errno, or a module
OpenAnswers ==
    {[err |-> "no such device", m |-> Module(0, 0, "acme", {})]}
        \cup {[err |-> "", m |-> mod] : mod \in MainModules}

\* the flag sets moduleInfo is called with during a pass
MainFlags == {TXR_MI_SERIAL, BitClear(txrInfoFlags, TXR_MI_SERIAL)}

-----------------------------------------------------------------------------
(* Collection Orchestrator: CollectIfacesSerially, step by step *)

Main == <<"main">>   \* the worker key of the calling context

NoWorkers == [k \in {} |-> <<>>]

NoDiag == [isnil |-> TRUE, metrics |-> <<>>]

\* the locals of CollectIfacesSerially at the top of the loop body for s[i];
\* stage records which call of the body produced err
AtIface(s, i) ==
    [pc |-> "open", s |-> s, i |-> i, m |-> Module(0, 0, "acme", {}),
     err |-> "", tags |-> EmptyTags, sn |-> <<>>, have_sn |-> FALSE,
     diag |-> NoDiag, stage |-> ""]

\* m, err := NewEthToolModule(iface); on error tags = make(map[string]string)
opened(w, a) ==
    IF a.err # ""
    THEN [w EXCEPT !.err = a.err, !.tags = EmptyTags, !.stage = "open", !.pc = "emit"]
    ELSE [w EXCEPT !.m = a.m, !.pc = "serial"]

\* a ModuleInfo that returned the serial it had read along with the error
infoFailedKeepsSerial(w, err) ==
    [w EXCEPT !.err = err, !.tags = MapSet(EmptyTags, "serial", w.sn),
              !.stage = "info", !.pc = "emit"]

\* ModuleInfo: return nil, err
infoFailed(w, err) ==
    [w EXCEPT !.err = err, !.tags = EmptyTags, !.stage = "info", !.pc = "emit"]

\* sn, have_sn = serial["serial"]
serialRead(w, ser) ==
    [w EXCEPT !.have_sn = "serial" \in DOMAIN ser.ret,
              !.sn = IF "serial" \in DOMAIN ser.ret THEN ser.ret["serial"] ELSE <<>>,
              !.pc = "lookup"]

\* ret["serial"] = sn, before the copy into the cache
fullRead(w, full) ==
    IF w.have_sn
    THEN [w EXCEPT !.tags = MapSet(full.ret, "serial", w.sn), !.pc = "insert"]
    ELSE [w EXCEPT !.tags = full.ret, !.pc = "diag"]

\* a TxrDiag that returned a record along with the error
diagReadKeepsRecord(w, d) ==
    [w EXCEPT !.diag = [isnil |-> FALSE, metrics |-> d.metrics], !.err = d.err,
              !.stage = IF d.err # "" THEN "diag" ELSE "", !.pc = "emit"]

\* metrics, err = m.TxrDiag()
diagRead(w, d) ==
    [w EXCEPT !.diag = [isnil |-> d.isnil, metrics |-> d.metrics], !.err = d.err,
              !.stage = IF d.err # "" THEN "diag" ELSE "", !.pc = "emit"]

\* the arguments of ch.Emit(iface, err, tags, metrics)
Record(w) ==
    [iface |-> w.s[w.i], err |-> w.err, tags |-> w.tags, metrics |-> w.diag,
     stage |-> w.stage]

\* a join that does not wait
waitReturnsAtOnce(counter) == TRUE

\* a join that returns while one worker is still running
waitReturnsWithOneLeft(counter) == counter <= 1

\* waitGroup.Wait() returns when the counter is zero
waitReturns(counter) == counter = 0

\* dispatch with the serial branch left out
collectsSeriallyNever(map) == FALSE

\* if (len(parallel) < 2)
collectsSerially(map) == Cardinality(DOMAIN map) < 2

\* this worker is about to read or write the map moduleCache
atCache(w) ==
    \/ w.pc = "insert"
    \/ w.pc = "lookup" /\ w.have_sn /\ validSerial(w.sn)

-----------------------------------------------------------------------------
(* Spec: passes of DiscoverAndCollect over the interfaces, serially on the  *)
(* calling context or as one worker per partition                           *)

Init ==
    /\ ifaces = <<>>
    /\ parallel \in Patterns
    /\ phase = "idle"
    /\ series = NoSeries
    /\ workers = NoWorkers
    /\ waitGroup = 0
    /\ emitted = <<>>
    /\ moduleCache = EmptyCache
    /\ crashed = ""
    /\ pass = 0
    /\ probe = ProbeOf(MainModules, MainFlags)
    /\ call = NoCall
    /\ prev = NoCall
    /\ SocketIdle

\* DiscoverAndCollect up to the dispatch: GetIfaces, the partition map, and
\* the serial collection entered on the calling context when there are fewer
\* than two partitions
DiscoverAndCollect ==
    /\ crashed = ""
    /\ phase \in {"idle", "returned"}
    /\ pass < MaxPasses
    /\ \E list \in IfaceLists :
        LET map == partitions(parallel, list) IN
        /\ ifaces' = list
        /\ series' = map
        /\ IF collectsSerially(map)
           THEN phase' = "serial" /\ workers' = [k \in {Main} |-> AtIface(list, 1)]
           ELSE phase' = "spawn" /\ workers' = NoWorkers
    /\ waitGroup' = 0
    /\ emitted' = <<>>
    /\ pass' = pass + 1
    /\ UNCHANGED <<parallel, moduleCache, crashed, probe, call, prev, sockVars>>

\* waitGroup.Add(1); go func (s... string) {...} (series...)
Spawn(key) ==
    /\ crashed = ""
    /\ phase = "spawn"
    /\ key \in DOMAIN series
    /\ key \notin DOMAIN workers
    /\ waitGroup' = waitGroup + 1
    /\ workers' = MapSet(workers, key, AtIface(series[key], 1))
    /\ UNCHANGED <<ifaces, parallel, phase, series, emitted, moduleCache, crashed,
                   pass, probe, call, prev, sockVars>>

\* waitGroup.Wait(), after the loop has spawned every partition
Wait ==
    /\ crashed = ""
    /\ phase = "spawn"
    /\ DOMAIN workers = DOMAIN series
    /\ waitReturns(waitGroup)
    /\ phase' = "returned"
    /\ UNCHANGED <<ifaces, parallel, series, workers, waitGroup, emitted,
                   moduleCache, crashed, pass, probe, call, prev, sockVars>>

\* a step of worker k when a lock is held around the cache lookup and insert
RunningUnderLock(k, pc) ==
    /\ crashed = ""
    /\ k \in DOMAIN workers
    /\ workers[k].pc = pc
    /\ pc \in {"lookup", "insert"} =>
           \A o \in DOMAIN workers \ {k} : ~atCache(workers[o])

\* a step of worker k
Running(k, pc) ==
    /\ crashed = ""
    /\ k \in DOMAIN workers
    /\ workers[k].pc = pc

Step(k, w) ==
    /\ workers' = [workers EXCEPT ![k] = w]
    /\ UNCHANGED <<ifaces, parallel, phase, series, waitGroup, emitted, moduleCache,
                   crashed, pass, probe, call, prev, sockVars>>

\* a panic nobody recovers ends the process
Panic ==
    /\ crashed' = "panic"
    /\ UNCHANGED <<ifaces, parallel, phase, series, workers, waitGroup, emitted,
                   moduleCache, pass, probe, call, prev, sockVars>>

\* m, err := NewEthToolModule(iface)
NewEthToolModule(k) ==
    /\ Running(k, "open")
    /\ workers[k].i <= Len(workers[k].s)
    /\ \E a \in OpenAnswers : Step(k, opened(workers[k], a))

\* ModuleInfo: serial, err := e.moduleInfo(TXR_MI_SERIAL)
ReadSerial(k) ==
    /\ Running(k, "serial")
    /\ \E ser \in {ModuleInfoSerial(workers[k].m)} :
        IF txrInfoFlags # TXR_MI_ALLOW_CACHE
        THEN Step(k, [workers[k] EXCEPT !.pc = "full"])
        ELSE IF ser.panic THEN Panic
        ELSE IF ser.err # "" THEN Step(k, infoFailed(workers[k], ser.err))
        ELSE Step(k, serialRead(workers[k], ser))

\* ModuleInfo: if have_sn && validSerial(sn) { if ret, found := moduleCache[sn]
Lookup(k) ==
    /\ Running(k, "lookup")
    /\ IF cacheHit(moduleCache, workers[k].have_sn, workers[k].sn)
       THEN Step(k, [workers[k] EXCEPT !.tags = moduleCache[workers[k].sn],
                                       !.pc = "diag"])
       ELSE Step(k, [workers[k] EXCEPT !.pc = "full"])

\* ModuleInfo: ret, err := e.moduleInfo(flags), flags without the serial bit
ReadFull(k) ==
    /\ Running(k, "full")
    /\ \E full \in {ModuleInfoFull(workers[k].m, txrInfoFlags, workers[k].have_sn)} :
        IF full.panic THEN Panic
        ELSE IF full.err # "" THEN Step(k, infoFailed(workers[k], full.err))
        ELSE Step(k, fullRead(workers[k], full))

\* ModuleInfo: moduleCache[sn] = retcopy
Insert(k) ==
    /\ Running(k, "insert")
    /\ moduleCache' = cacheStore(moduleCache, workers[k].sn, workers[k].tags)
    /\ workers' = [workers EXCEPT ![k].pc = "diag"]
    /\ UNCHANGED <<ifaces, parallel, phase, series, waitGroup, emitted, crashed,
                   pass, probe, call, prev, sockVars>>

\* if err == nil { metrics, err = m.TxrDiag() }
ReadDiag(k) ==
    /\ Running(k, "diag")
    /\ \E d \in {TxrDiagAt(workers[k].m)} :
        IF d.panic THEN Panic ELSE Step(k, diagRead(workers[k], d))

\* ch.Emit(iface, err, tags, metrics), and on to the next interface
Emit(k) ==
    /\ Running(k, "emit")
    /\ emitted' = Append(emitted, Record(workers[k]))
    /\ workers' = [workers EXCEPT ![k] = AtIface(workers[k].s, workers[k].i + 1)]
    /\ UNCHANGED <<ifaces, parallel, phase, series, waitGroup, moduleCache, crashed,
                   pass, probe, call, prev, sockVars>>

\* CollectIfacesSerially returns: to DiscoverAndCollect on the calling
\* context, to the deferred waitGroup.Done() in a worker
Return(k) ==
    /\ Running(k, "open")
    /\ workers[k].i > Len(workers[k].s)
    /\ workers' = [workers EXCEPT ![k].pc = "done"]
    /\ IF k = Main
       THEN phase' = "returned" /\ UNCHANGED waitGroup
       ELSE waitGroup' = waitGroup - 1 /\ UNCHANGED phase
    /\ UNCHANGED <<ifaces, parallel, series, emitted, moduleCache, crashed, pass,
                   probe, call, prev, sockVars>>

\* two workers at the unsynchronized map moduleCache, one of them writing:
\* the runtime may stop the process with "concurrent map writes" (or "read
\* and map write"); when it does not, the accesses take effect in some order
ConcurrentMapAccess ==
    /\ crashed = ""
    /\ \E k1, k2 \in DOMAIN workers :
        /\ k1 # k2
        /\ workers[k1].pc = "insert"
        /\ atCache(workers[k2])
    /\ crashed' = "fatal"
    /\ UNCHANGED <<ifaces, parallel, phase, series, workers, waitGroup, emitted,
                   moduleCache, pass, probe, call, prev, sockVars>>

WorkerKeys == {Main, NilKey} \cup {partitionKey(p, IfacePool[i]) :
                                      p \in Patterns, i \in 1..Len(IfacePool)}

Next ==
    \/ DiscoverAndCollect
    \/ Wait
    \/ ConcurrentMapAccess
    \/ \E k \in WorkerKeys :
        \/ Spawn(k)
        \/ NewEthToolModule(k)
        \/ ReadSerial(k)
        \/ Lookup(k)
        \/ ReadFull(k)
        \/ Insert(k)
        \/ ReadDiag(k)
        \/ Emit(k)
        \/ Return(k)

Spec == Init /\ [][Next]_vars

-----------------------------------------------------------------------------
(* Properties of a pass *)

\* the positions in emitted of the records of iface
RecordsOf(iface) == {i \in 1..Len(emitted) : emitted[i].iface = iface}

\* the pass is over: DiscoverAndCollect has returned, or the process has died
PassOver == phase = "returned" \/ crashed # ""

\* C1: when a pass of DiscoverAndCollect is over, Emit has been called exactly
\* once for each interface of the list, whatever the pattern and the outcome
\* on each interface, serially or as concurrent partitions.
C1_EmitOncePerInterface ==
    PassOver => \A i \in 1..Len(ifaces) : Cardinality(RecordsOf(ifaces[i])) = 1

\* C2: no device response on an interface aborts the pass: a failure shows
\* only as the error of that interface's record, never as a panic that ends
\* the process before the other records are emitted.
C2_FailureNeverAbortsPass == crashed # "panic"

\* C3: every record passed to Emit has a non-nil error if and only if its
\* Diagnostics Record is nil.
C3_ErrorIffNoDiagnostics ==
    \A i \in 1..Len(emitted) : (emitted[i].err # "") <=> emitted[i].metrics.isnil

\* a pass has emitted a record with diagnostics and no error, and a record
\* with an error and no diagnostics
C3_Witness ==
    /\ \E i \in 1..Len(emitted) :
        emitted[i].err = "" /\ ~emitted[i].metrics.isnil
            /\ emitted[i].metrics.metrics.temperature_C = <<9993, 256>>
    /\ \E i \in 1..Len(emitted) : emitted[i].err # "" /\ emitted[i].metrics.isnil

\* C4 as stated: every record with a non-nil error has an empty Tag Set,
\* whatever stage failed.
C4_ErrorImpliesEmptyTags ==
    \A i \in 1..Len(emitted) : emitted[i].err # "" => emitted[i].tags = EmptyTags

FieldNames == {"vendor", "oui", "product", "revision", "wavelen", "serial", "mfgdate"}

\* C4: a record whose error comes from opening the module or from reading the
\* Tag Set has an empty Tag Set; a record whose error comes from reading the
\* diagnostic page carries the Tag Set that was read before, with every field.
C4_EmptyTagsUnlessDiagFailed ==
    \A i \in 1..Len(emitted) :
        /\ emitted[i].stage \in {"open", "info"} =>
               (emitted[i].err # "" /\ emitted[i].tags = EmptyTags)
        /\ emitted[i].stage = "diag" =>
               (emitted[i].err # "" /\ DOMAIN emitted[i].tags = FieldNames)
        /\ emitted[i].stage = "" => emitted[i].err = ""

\* records of all three failing stages in one pass, the one of the diagnostic
\* page with the serial of the module in its Tag Set
C4_Witness ==
    /\ \E i \in 1..Len(emitted) : emitted[i].stage = "open"
    /\ \E i \in 1..Len(emitted) : emitted[i].stage = "info"
    /\ \E i \in 1..Len(emitted) :
        /\ emitted[i].stage = "diag"
        /\ emitted[i].err = "ethtool: Offset out of bounds."
        /\ emitted[i].tags["serial"] = Images["acme"].serial

\* C5: with two or more partitions, when DiscoverAndCollect has returned every
\* partition has a worker, every worker has finished, and every interface of
\* every partition has its record emitted.
C5_ReturnsAfterAllWorkers ==
    (phase = "returned" /\ Cardinality(DOMAIN series) >= 2) =>
        /\ DOMAIN workers = DOMAIN series
        /\ \A k \in DOMAIN series :
            /\ workers[k].pc = "done"
            /\ \A i \in 1..Len(series[k]) : Cardinality(RecordsOf(series[k][i])) = 1

\* DiscoverAndCollect has returned from a pass of two partitions, one of them
\* with two interfaces
C5_Witness ==
    /\ phase = "returned"
    /\ Cardinality(DOMAIN series) = 2
    /\ \E k \in DOMAIN series : Len(series[k]) = 2
    /\ Len(emitted) = 3

-----------------------------------------------------------------------------
(* SpecPartition: the partition map DiscoverAndCollect builds, for every    *)
(* pattern of the model and every sorted list of at most MaxIfaces names    *)

enp1s3f0 == <<101, 110, 112, 49, 115, 51, 102, 48>>
allDigits == <<52, 50>>          \* "42", a name no pattern with a letter matches
likeNilKey == NilKey             \* a name that is the fallback key itself

\* the names of SpecPartition, in sort.Strings order
PartitionPool == <<likeNilKey, allDigits, enp1s2f0, enp1s2f1, enp1s3f0, lo>>

PartitionLists ==
    {SelectSeq(PartitionPool, LAMBDA n : n \in S) :
        S \in {T \in SUBSET {PartitionPool[i] : i \in 1..Len(PartitionPool)} :
                  Cardinality(T) <= MaxIfaces}}

PartitionPatterns == Patterns \cup {"^([a-z]+)([0-9]*)"}

InitPartition ==
    /\ MainIdle
    /\ Direct
    /\ moduleCache = EmptyCache
    /\ prev = NoCall
    /\ call \in {[op |-> "partition", pattern |-> p, list |-> l, done |-> FALSE,
                  map |-> NoSeries] : p \in PartitionPatterns, l \in PartitionLists}

CallPartition ==
    /\ call.op = "partition"
    /\ ~call.done
    /\ call' = [call EXCEPT !.done = TRUE, !.map = partitions(call.pattern, call.list)]
    /\ UNCHANGED <<mainVars, probe, moduleCache, prev>>

NextPartition == CallPartition

SpecPartition == InitPartition /\ [][NextPartition]_vars

\* the name holds neither byte 0x01 nor byte 0x02
PlainName(n) == \A i \in 1..Len(n) : n[i] # 1 /\ n[i] # 2

\* a and b are in the same series of the map
SamePartition(map, a, b) ==
    \E k \in DOMAIN map :
        /\ \E i \in 1..Len(map[k]) : map[k][i] = a
        /\ \E i \in 1..Len(map[k]) : map[k][i] = b

\* the pattern matches both names with the same capture groups, or neither
SameGroups(pattern, a, b) ==
    LET ga == FindStringSubmatch(pattern, a)
        gb == FindStringSubmatch(pattern, b)
    IN  \/ ga.isnil /\ gb.isnil
        \/ ~ga.isnil /\ ~gb.isnil /\ Tail(ga.groups) = Tail(gb.groups)

\* C11: two interfaces whose names are free of the bytes 0x01 and 0x02 are in
\* the same partition if and only if the pattern matches both with identical
\* capture-group tuples or matches neither; every such interface is in the map.
C11_PartitionByCaptureGroups ==
    (call.op = "partition" /\ call.done) =>
        \A i, j \in 1..Len(call.list) :
            (PlainName(call.list[i]) /\ PlainName(call.list[j])) =>
                (SamePartition(call.map, call.list[i], call.list[j])
                    <=> SameGroups(call.pattern, call.list[i], call.list[j]))

\* under the pattern that strips trailing digits, enp1s2f0 and enp1s2f1 share
\* a partition and enp1s3f0 is in another one
C11_Witness ==
    /\ call.op = "partition" /\ call.done
    /\ call.pattern = "^(.*[^0-9])"
    /\ call.list = <<enp1s2f0, enp1s2f1, enp1s3f0>>
    /\ SamePartition(call.map, enp1s2f0, enp1s2f1)
    /\ ~SamePartition(call.map, enp1s2f0, enp1s3f0)
    /\ Cardinality(DOMAIN call.map) = 2

-----------------------------------------------------------------------------
(* Dispatch *)

\* the interfaces of a series, as a set
Members(list) == {list[i] : i \in 1..Len(list)}

\* the records emitted so far for the interfaces of a series
RecordsIn(list) == {n \in 1..Len(emitted) : emitted[n].iface \in Members(list)}

\* C12: with fewer than two partitions DiscoverAndCollect spawns no worker and
\* collects the whole list on the calling context, in list order; with two or
\* more it spawns one worker per partition, never more, the calling context
\* collects nothing, and the records of a partition's interfaces are those its
\* own worker has emitted.
C12_Dispatch ==
    (pass > 0) =>
        IF Cardinality(DOMAIN series) < 2
        THEN /\ DOMAIN workers = {Main}
             /\ waitGroup = 0
             /\ workers[Main].s = ifaces
             /\ Len(emitted) = workers[Main].i - 1
             /\ \A n \in 1..Len(emitted) : emitted[n].iface = ifaces[n]
        ELSE /\ Main \notin DOMAIN workers
             /\ DOMAIN workers \subseteq DOMAIN series
             /\ waitGroup = Cardinality({k \in DOMAIN workers : workers[k].pc # "done"})
             /\ phase = "returned" => DOMAIN workers = DOMAIN series
             /\ \A k \in DOMAIN workers :
                 /\ workers[k].s = series[k]
                 /\ Cardinality(RecordsIn(series[k])) = workers[k].i - 1
             /\ \A k \in DOMAIN series \ DOMAIN workers : RecordsIn(series[k]) = {}
             /\ \A k1, k2 \in DOMAIN series :
                 k1 # k2 => Members(series[k1]) \cap Members(series[k2]) = {}

\* a pass over two interfaces of one partition has returned from the serial
\* collection on the calling context
C12_Witness ==
    /\ phase = "returned"
    /\ Cardinality(DOMAIN series) = 1
    /\ ifaces = <<enp1s2f0, enp1s2f1>>
    /\ DOMAIN workers = {Main}
    /\ Len(emitted) = 2

-----------------------------------------------------------------------------
(* SpecSocket: MaxCallers goroutines, each issuing MaxRequests device-      *)
(* control requests through ethtool(), statement by statement               *)

Goroutines == 1..MaxCallers

\* a goroutine entering ethtool() with left requests to issue
Entering(left) == [pc |-> IF left > 0 THEN "check" ELSE "done", fd |-> -1, left |-> left]

InitSocket ==
    /\ PassIdle
    /\ Direct
    /\ moduleCache = EmptyCache
    /\ call = NoCall
    /\ prev = NoCall
    /\ ethtool_socket = -1
    /\ sockets = <<>>
    /\ callers = [g \in Goroutines |-> Entering(MaxRequests)]
    /\ ioctls = <<>>

\* if ethtool_socket < 0
EthtoolCheck(g) ==
    /\ callers[g].pc = "check"
    /\ callers' = [callers EXCEPT ![g].pc = IF ethtool_socket < 0 THEN "socket"
                                            ELSE "ioctl"]
    /\ UNCHANGED <<passVars, probe, moduleCache, call, prev, ethtool_socket, sockets,
                   ioctls>>

\* fd, err := unix.Socket(...); if err != nil { return err }
EthtoolSocket(g) ==
    /\ callers[g].pc = "socket"
    /\ \E ok \in BOOLEAN :
        IF ok
        THEN /\ sockets' = Append(sockets, Len(sockets) + 1)
             /\ callers' = [callers EXCEPT ![g].fd = Len(sockets) + 1,
                                           ![g].pc = "assign"]
        ELSE /\ sockets' = sockets
             /\ callers' = [callers EXCEPT ![g] = Entering(callers[g].left - 1)]
    /\ UNCHANGED <<passVars, probe, moduleCache, call, prev, ethtool_socket, ioctls>>

\* ethtool_socket = fd
EthtoolAssign(g) ==
    /\ callers[g].pc = "assign"
    /\ ethtool_socket' = callers[g].fd
    /\ callers' = [callers EXCEPT ![g].pc = "ioctl"]
    /\ UNCHANGED <<passVars, probe, moduleCache, call, prev, sockets, ioctls>>

\* unix.Syscall(unix.SYS_IOCTL, uintptr(ethtool_socket), unix.SIOCETHTOOL, ...)
EthtoolIoctl(g) ==
    /\ callers[g].pc = "ioctl"
    /\ ioctls' = Append(ioctls, ethtool_socket)
    /\ callers' = [callers EXCEPT ![g] = Entering(callers[g].left - 1)]
    /\ UNCHANGED <<passVars, probe, moduleCache, call, prev, ethtool_socket, sockets>>

NextSocket ==
    \E g \in Goroutines :
        \/ EthtoolCheck(g)
        \/ EthtoolSocket(g)
        \/ EthtoolAssign(g)
        \/ EthtoolIoctl(g)

SpecSocket == InitSocket /\ [][NextSocket]_vars

\* C13: over every interleaving of the goroutines' requests the socket is
\* successfully opened at most once, and every request is issued through that
\* one descriptor.
C13_SocketOpenedOnce ==
    /\ Len(sockets) <= 1
    /\ \A i \in 1..Len(ioctls) : ioctls[i] = sockets[1]

-----------------------------------------------------------------------------
(* Unsupported module class *)

\* worker k holds a module of another class than SFF-8472
OtherClass(k) ==
    /\ k \in DOMAIN workers
    /\ workers[k].stage # "open"
    /\ workers[k].m.tpe # ETH_MODULE_SFF_8472

\* the ModuleInfo step of worker k on a module of another class, and the
\* Emit that follows it
UnsupportedStep(k) ==
    /\ (OtherClass(k) /\ workers[k].pc = "serial" /\ workers'[k] # workers[k]) =>
          /\ ModuleInfoSerial(workers[k].m).err = UnsupportedModuleType
          /\ ModuleInfoSerial(workers[k].m).reqs = <<>>
          /\ TxrDiagAt(workers[k].m).err = UnsupportedModuleType
          /\ TxrDiagAt(workers[k].m).reqs = <<>>
          /\ TxrDiagAt(workers[k].m).isnil
          /\ moduleCache' = moduleCache
          /\ workers'[k].pc = "emit"
          /\ workers'[k].err = UnsupportedModuleType
          /\ workers'[k].diag.isnil
    /\ (OtherClass(k) /\ workers[k].pc \notin {"open", "serial", "emit", "done"}) => FALSE
    /\ (OtherClass(k) /\ workers[k].pc = "emit" /\ workers'[k] # workers[k]) =>
          /\ Len(emitted') = Len(emitted) + 1
          /\ emitted'[Len(emitted')].iface = workers[k].s[workers[k].i]
          /\ emitted'[Len(emitted')].err = UnsupportedModuleType
          /\ emitted'[Len(emitted')].metrics.isnil

\* C14: on a module whose class is not 0x2, ModuleInfo and TxrDiag fail with
\* the unsupported-module-type error without any EEPROM read, ModuleInfo
\* leaves the cache as it was, and the record emitted for the interface
\* carries that error and no Diagnostics Record.
C14_UnsupportedClass == [][\A k \in WorkerKeys : UnsupportedStep(k)]_vars

\* the record of an interface with a module of another class has been emitted
C14_Witness ==
    \E i \in 1..Len(emitted) :
        /\ emitted[i].err = UnsupportedModuleType
        /\ emitted[i].stage = "info"
        /\ emitted[i].metrics.isnil

-----------------------------------------------------------------------------
(* Emission Encoders: MetricChan.Emit *)

\* tags[label] on a Go map: the empty string for a missing key
TagValue(tags, label) == IF label \in DOMAIN tags THEN tags[label] ELSE <<>>

\* the label values of transciever_present, by label name.  The error text is
\* kept as the error itself ("" without error), the others are byte strings.
PresentLabels(iface, err, tags) ==
    [label \in {transcieverFullLabels[i] : i \in 1..Len(transcieverFullLabels)} |->
        CASE label = "error" -> err
          [] label = "iface" -> iface
          [] OTHER -> TagValue(tags, label)]

\* prometheus.MustNewConstMetric(desc, prometheus.GaugeValue, value, labels...)
Sample(name, value, labels) == [name |-> name, value |-> value, labels |-> labels]

\* metrics.x * 0.001 on a measurement raw/divisor
Milli(v) == <<v[1], v[2] * 1000>>

\* a metric encoder that emits the gauges of a failed record too
MetricEmitAlways(iface, err, tags, metrics) ==
    [panic |-> metrics.isnil,
     samples |-> IF metrics.isnil THEN <<>>
                 ELSE << Sample("transciever_present", <<1, 1>>,
                                PresentLabels(iface, err, tags)),
                         Sample("transciever_temp", metrics.metrics.temperature_C,
                                [iface |-> iface]) >>]

\* (ch MetricChan) Emit: the samples sent to the channel, in order; panic when
\* metrics is dereferenced while nil
MetricEmit(iface, err, tags, metrics) ==
    IF err = ""
    THEN IF metrics.isnil THEN [panic |-> TRUE, samples |-> <<>>]
         ELSE [panic |-> FALSE,
               samples |->
                 << Sample("transciever_present", <<1, 1>>,
                           PresentLabels(iface, err, tags)),
                    Sample("transciever_temp", metrics.metrics.temperature_C,
                           [iface |-> iface]),
                    Sample("transciever_volt", metrics.metrics.voltage_V,
                           [iface |-> iface]),
                    Sample("transciever_bias", Milli(metrics.metrics.bias_mA),
                           [iface |-> iface]),
                    Sample("transciever_txw", Milli(metrics.metrics.transmit_mW),
                           [iface |-> iface]),
                    Sample("transciever_rxw", Milli(metrics.metrics.receive_mW),
                           [iface |-> iface]) >>]
    ELSE [panic |-> FALSE,
          samples |-> << Sample("transciever_present", <<0, 1>>,
                                PresentLabels(iface, err, tags)) >>]

-----------------------------------------------------------------------------
(* Emission Encoders: texts of InfluxChan.Emit, as byte strings *)

\* err.Error() as bytes, for the errors of the model
ErrorText(err) ==
    CASE err = "Unsupported module type" ->
            <<85, 110, 115, 117, 112, 112, 111, 114, 116, 101, 100, 32, 109, 111, 100, 117, 108, 101, 32, 116, 121, 112, 101>>
      [] err = "ethtool: No EEPROM to read." ->
            <<101, 116, 104, 116, 111, 111, 108, 58, 32, 78, 111, 32, 69, 69, 80, 82, 79, 77, 32, 116, 111, 32, 114, 101, 97, 100, 46>>
      [] err = "ethtool: Offset out of bounds." ->
            <<101, 116, 104, 116, 111, 111, 108, 58, 32, 79, 102, 102, 115, 101, 116, 32, 111, 117, 116, 32, 111, 102, 32, 98, 111, 117, 110, 100, 115, 46>>
      [] err = "input/output error" ->
            <<105, 110, 112, 117, 116, 47, 111, 117, 116, 112, 117, 116, 32, 101, 114, 114, 111, 114>>
      [] err = "no such device" ->
            <<110, 111, 32, 115, 117, 99, 104, 32, 100, 101, 118, 105, 99, 101>>
      [] OTHER -> <<>>

\* a label name as bytes
LabelText(label) ==
    CASE label = "iface" -> <<105, 102, 97, 99, 101>>
      [] label = "error" -> <<101, 114, 114, 111, 114>>
      [] label = "vendor" -> <<118, 101, 110, 100, 111, 114>>
      [] label = "revision" -> <<114, 101, 118, 105, 115, 105, 111, 110>>
      [] label = "product" -> <<112, 114, 111, 100, 117, 99, 116>>
      [] label = "serial" -> <<115, 101, 114, 105, 97, 108>>
      [] label = "wavelen" -> <<119, 97, 118, 101, 108, 101, 110>>
      [] label = "mfgdate" -> <<109, 102, 103, 100, 97, 116, 101>>

\* "%v_transciever," with namespace "ethtool"
txtMeasurement ==
    <<101, 116, 104, 116, 111, 111, 108, 95, 116, 114, 97, 110, 115, 99, 105,
      101, 118, 101, 114, 44>>

\* " present=1i"
txtPresent1 ==
    <<32, 112, 114, 101, 115, 101, 110, 116, 61, 49, 105>>

\* " present=0i\n"
txtPresent0 ==
    <<32, 112, 114, 101, 115, 101, 110, 116, 61, 48, 105, 10>>

\* ",temperature_C="
txt_temperature_C ==
    <<44, 116, 101, 109, 112, 101, 114, 97, 116, 117, 114, 101, 95, 67, 61>>

\* ",voltage_V="
txt_voltage_V ==
    <<44, 118, 111, 108, 116, 97, 103, 101, 95, 86, 61>>

\* ",bias_A="
txt_bias_A ==
    <<44, 98, 105, 97, 115, 95, 65, 61>>

\* ",receive_power_dBm="
txt_receive_power_dBm ==
    <<44, 114, 101, 99, 101, 105, 118, 101, 95, 112, 111, 119, 101, 114, 95,
      100, 66, 109, 61>>

\* ",transmit_power_dBm="
txt_transmit_power_dBm ==
    <<44, 116, 114, 97, 110, 115, 109, 105, 116, 95, 112, 111, 119, 101, 114,
      95, 100, 66, 109, 61>>

\* ",receive_power_W="
txt_receive_power_W ==
    <<44, 114, 101, 99, 101, 105, 118, 101, 95, 112, 111, 119, 101, 114, 95,
      87, 61>>

\* ",transmit_power_W="
txt_transmit_power_W ==
    <<44, 116, 114, 97, 110, 115, 109, 105, 116, 95, 112, 111, 119, 101, 114,
      95, 87, 61>>

-----------------------------------------------------------------------------
(* Emission Encoders: number formatting and tag escaping *)

RECURSIVE Pow10(_)
Pow10(n) == IF n = 0 THEN 1 ELSE 10 * Pow10(n - 1)

RECURSIVE ScaledDivision(_, _, _, _)
\* long division: the quotient q.r/den carried to prec more decimal digits
ScaledDivision(q, r, den, prec) ==
    IF prec = 0 THEN [q |-> q, r |-> r]
    ELSE ScaledDivision(q * 10 + (r * 10) \div den, (r * 10) % den, den, prec - 1)

RECURSIVE ZeroPad(_, _)
\* digits left-padded with "0" to width n
ZeroPad(digits, n) == IF Len(digits) >= n THEN digits ELSE ZeroPad(<<48>> \o digits, n)

\* fmt's %.<prec>f of the measurement v = raw/divisor (v >= 0, prec > 0),
\* rounded to nearest
FormatFixed(v, prec) ==
    LET d      == ScaledDivision(v[1] \div v[2], v[1] % v[2], v[2], prec)
        scaled == IF 2 * d.r >= v[2] THEN d.q + 1 ELSE d.q
    IN  Decimal(scaled \div Pow10(prec)) \o <<46>>
            \o ZeroPad(Decimal(scaled % Pow10(prec)), prec)

\* fmt's %.2f of math.Log10(v)*10.  The logarithm is not evaluated: the
\* digits are written dBm(v), v with four decimals; Log10(0) is -Inf.
FormatDBm(v) ==
    IF v[1] = 0 THEN <<45, 73, 110, 102>>                         \* "-Inf"
    ELSE <<100, 66, 109, 40>> \o FormatFixed(v, 4) \o <<41>>

\* the replacement texts of the three passes, for a matched character c
Replacement(repl, c) ==
    CASE repl = "~"     -> <<126>>
      [] repl = "\\ "   -> <<92, 32>>
      [] repl = "\\$1"  -> <<92, c>>

RECURSIVE ReplaceAll(_, _, _)
\* Regexp.ReplaceAllString for a pattern that matches single characters
ReplaceAll(value, class, repl) ==
    IF value = <<>> THEN <<>>
    ELSE (IF Head(value) \in class THEN Replacement(repl, Head(value))
          ELSE <<Head(value)>>)
            \o ReplaceAll(Tail(value), class, repl)

\* dangerousChars: ["'`] (the backslash in the pattern escapes the quote)
dangerousChars == {34, 39, 96}

\* escapeChars: ([,=])
escapeChars == {44, 61}

\* whiteChars: [[:cntrl:][:space:]], the ASCII classes
whiteChars == (0..31) \cup {127} \cup {9, 10, 11, 12, 13, 32}

\* the rewriting without its first pass
escapeTagValueKeepsQuotes(value) ==
    ReplaceAll(ReplaceAll(value, whiteChars, "\\ "), escapeChars, "\\$1")

\* the three ReplaceAllString passes of InfluxChan.Emit, in their order
escapeTagValue(value) ==
    ReplaceAll(ReplaceAll(ReplaceAll(value, dangerousChars, "~"),
                          whiteChars, "\\ "),
               escapeChars, "\\$1")

-----------------------------------------------------------------------------
(* Emission Encoders: InfluxChan.Emit and the writer loop of Influxdb *)

\* the value of a tag of the line: iface, err.Error() or tags[label]
InfluxValue(label, iface, err, tags) ==
    CASE label = "iface" -> iface
      [] label = "error" -> IF err # "" THEN ErrorText(err) ELSE <<>>
      [] OTHER -> TagValue(tags, label)

RECURSIVE tagListLoop(_, _, _, _, _)
\* the loop of InfluxChan.Emit over transcieverFullLabels[i..]
tagListLoop(i, iface, err, tags, tagList) ==
    IF i > Len(transcieverFullLabels) THEN tagList
    ELSE LET label == transcieverFullLabels[i]
             value == InfluxValue(label, iface, err, tags)
         IN  IF Len(value) > 0
             THEN tagListLoop(i + 1, iface, err, tags,
                      Append(tagList, LabelText(label) \o <<61>> \o escapeTagValue(value)))
             ELSE tagListLoop(i + 1, iface, err, tags, tagList)

\* (ch InfluxChan) Emit: the line sent to the channel
InfluxEmit(iface, err, tags, metrics) ==
    LET tagStr == Join(tagListLoop(1, iface, err, tags, <<>>), <<44>>) IN
    IF err = ""
    THEN IF metrics.isnil THEN [panic |-> TRUE, line |-> <<>>]
         ELSE [panic |-> FALSE,
               line |-> txtMeasurement \o tagStr \o txtPresent1
                  \o txt_temperature_C \o FormatFixed(metrics.metrics.temperature_C, 2)
                  \o txt_voltage_V \o FormatFixed(metrics.metrics.voltage_V, 3)
                  \o txt_bias_A \o FormatFixed(Milli(metrics.metrics.bias_mA), 6)
                  \o txt_receive_power_dBm \o FormatDBm(metrics.metrics.receive_mW)
                  \o txt_transmit_power_dBm \o FormatDBm(metrics.metrics.transmit_mW)
                  \o txt_receive_power_W
                  \o FormatFixed(Milli(metrics.metrics.receive_mW), 7)
                  \o txt_transmit_power_W
                  \o FormatFixed(Milli(metrics.metrics.transmit_mW), 7)]
    ELSE [panic |-> FALSE, line |-> txtMeasurement \o tagStr \o txtPresent0]

\* Influxdb: fmt.Fprintf(writer, "%s %v\n", line, nowi)
InfluxdbWrite(line, nowi) == line \o <<32>> \o Decimal(nowi) \o <<10>>

-----------------------------------------------------------------------------
(* SpecEmit: one Collection Record handed to the metric encoder, or to the  *)
(* line-protocol encoder and then written by Influxdb                       *)

HealthyAcme == Module(ETH_MODULE_SFF_8472, ETH_MODULE_SFF_8472_LEN, "acme", {})

\* the Tag Sets of the records: none, the one read from a healthy module, and
\* one whose vendor holds a quote, a comma and a space
EmitTags ==
    { EmptyTags,
      moduleInfo(HealthyAcme, TXR_MI_ALL).ret,
      [t \in {"vendor", "serial"} |->
          IF t = "vendor" THEN <<79, 34, 78, 101, 105, 108, 44, 32, 67, 111>>  \* O"Neil, Co
          ELSE <<83, 78, 48, 48, 52, 50>>] }

\* the Diagnostics Records: the one of the EEPROM images, and one of a module
\* that receives no light
EmitMetrics ==
    { [isnil |-> FALSE, metrics |-> TxrDiag(HealthyAcme).metrics],
      [isnil |-> FALSE,
       metrics |-> [temperature_C |-> <<6400, 256>>, voltage_V |-> <<33000, 10000>>,
                    bias_mA |-> <<3, 500>>, transmit_mW |-> <<12345, 10000>>,
                    receive_mW |-> <<0, 10000>>]] }

EmitErrors ==
    {"no such device", UnsupportedModuleType, "ethtool: Offset out of bounds."}

\* the records CollectIfacesSerially can hand to Emit: an error and no
\* diagnostics, or diagnostics and no error
EmitRecords ==
    {[iface |-> i, err |-> "", tags |-> t, metrics |-> d] :
        i \in {enp1s2f0, lo}, t \in EmitTags, d \in EmitMetrics}
    \cup
    {[iface |-> i, err |-> e, tags |-> t, metrics |-> NoDiag] :
        i \in {enp1s2f0, lo}, t \in EmitTags, e \in EmitErrors}

\* now.UnixNano() of the runs of Influxdb
NowValues == {7, 1700000000}

InitEmit ==
    /\ MainIdle
    /\ Direct
    /\ moduleCache = EmptyCache
    /\ prev = NoCall
    /\ call \in {[op |-> o, rec |-> r, nowi |-> n, done |-> FALSE, panic |-> FALSE,
                  samples |-> <<>>, line |-> <<>>, written |-> <<>>] :
                    o \in {"MetricEmit", "InfluxEmit"}, r \in EmitRecords, n \in NowValues}

\* ch.Emit(iface, err, tags, metrics) on a MetricChan
CallMetricEmit ==
    /\ call.op = "MetricEmit"
    /\ ~call.done
    /\ \E r \in {MetricEmit(call.rec.iface, call.rec.err, call.rec.tags,
                            call.rec.metrics)} :
        call' = [call EXCEPT !.done = TRUE, !.panic = r.panic, !.samples = r.samples]
    /\ UNCHANGED <<mainVars, probe, moduleCache, prev>>

\* ch.Emit(iface, err, tags, metrics) on an InfluxChan
CallInfluxEmit ==
    /\ call.op = "InfluxEmit"
    /\ ~call.done
    /\ \E r \in {InfluxEmit(call.rec.iface, call.rec.err, call.rec.tags,
                            call.rec.metrics)} :
        call' = [call EXCEPT !.done = TRUE, !.panic = r.panic, !.line = r.line]
    /\ UNCHANGED <<mainVars, probe, moduleCache, prev>>

\* the loop of Influxdb receives the line and writes it
InfluxdbReceive ==
    /\ call.op = "InfluxEmit"
    /\ call.done /\ ~call.panic
    /\ call.written = <<>>
    /\ call' = [call EXCEPT !.written = InfluxdbWrite(call.line, call.nowi)]
    /\ UNCHANGED <<mainVars, probe, moduleCache, prev>>

NextEmit == CallMetricEmit \/ CallInfluxEmit \/ InfluxdbReceive

SpecEmit == InitEmit /\ [][NextEmit]_vars

\* the names of the samples, in order
SampleNames(samples) == [i \in 1..Len(samples) |-> samples[i].name]

IdentityLabels == {"vendor", "revision", "product", "serial", "wavelen", "mfgdate"}

\* C15: the metric encoder turns a record without error into exactly six
\* samples, transciever_present = 1 labelled with iface and the identity tags,
\* and the five gauges labelled with iface only; and a record with an error
\* into the single sample transciever_present = 0 whose error label is the
\* error text.
C15_MetricEncoder ==
    (call.op = "MetricEmit" /\ call.done) =>
        /\ ~call.panic
        /\ call.samples[1].name = "transciever_present"
        /\ call.samples[1].labels["iface"] = call.rec.iface
        /\ call.samples[1].labels["error"] = call.rec.err
        /\ \A l \in IdentityLabels :
              call.samples[1].labels[l] = TagValue(call.rec.tags, l)
        /\ IF call.rec.err = ""
           THEN /\ call.samples[1].value = <<1, 1>>
                /\ SampleNames(call.samples) =
                      <<"transciever_present", "transciever_temp", "transciever_volt",
                        "transciever_bias", "transciever_txw", "transciever_rxw">>
                /\ \A i \in 2..6 : call.samples[i].labels = [iface |-> call.rec.iface]
                /\ call.samples[2].value = call.rec.metrics.metrics.temperature_C
                /\ call.samples[3].value = call.rec.metrics.metrics.voltage_V
                /\ call.samples[4].value = Milli(call.rec.metrics.metrics.bias_mA)
                /\ call.samples[5].value = Milli(call.rec.metrics.metrics.transmit_mW)
                /\ call.samples[6].value = Milli(call.rec.metrics.metrics.receive_mW)
           ELSE /\ Len(call.samples) = 1
                /\ call.samples[1].value = <<0, 1>>

\* a record with the Tag Set of a healthy module and no error has been encoded
C15_Witness ==
    /\ call.op = "MetricEmit" /\ call.done
    /\ call.rec.err = ""
    /\ Len(call.samples) = 6
    /\ call.samples[1].labels["vendor"] = Images["acme"].vendor
    /\ call.samples[2].value = <<9993, 256>>

\* the positions of the spaces of a text that no backslash escapes
Separators(w) == {i \in 2..Len(w) : w[i] = 32 /\ w[i - 1] # 92}

\* t occurs in w
Contains(w, t) == \E i \in 0..(Len(w) - Len(t)) : SubSeq(w, i + 1, i + Len(t)) = t

NumericFields ==
    {txt_temperature_C, txt_voltage_V, txt_bias_A, txt_receive_power_dBm,
     txt_transmit_power_dBm, txt_receive_power_W, txt_transmit_power_W}

\* C16: what Influxdb writes for a record is exactly one line: measurement and
\* tags, a space, the field list, a space, the timestamp and the newline; the
\* field list is present=1i followed by the seven numeric fields for a record
\* without error and present=0i alone for a record with an error.
C16_OneLinePerRecord ==
    (call.op = "InfluxEmit" /\ call.written # <<>>) =>
        LET w      == call.written
            sep    == Separators(w)
            s1     == CHOOSE i \in sep : \A j \in sep : i <= j
            s2     == CHOOSE i \in sep : \A j \in sep : j <= i
            fields == SubSeq(w, s1 + 1, s2 - 1)
        IN  /\ {i \in 1..Len(w) : w[i] = 10} = {Len(w)}
            /\ Cardinality(sep) = 2
            /\ SubSeq(w, 1, Len(txtMeasurement)) = txtMeasurement
            /\ SubSeq(w, s2 + 1, Len(w) - 1) = Decimal(call.nowi)
            /\ IF call.rec.err = ""
               THEN /\ SubSeq(fields, 1, Len(txtPresent1) - 1) = Tail(txtPresent1)
                    /\ Cardinality({i \in 1..Len(fields) : fields[i] = 44}) = 7
                    /\ \A t \in NumericFields : Contains(fields, t)
               ELSE fields = SubSeq(txtPresent0, 2, Len(txtPresent0) - 1)

-----------------------------------------------------------------------------
(* SpecEscape: the rewriting of one tag value by InfluxChan.Emit, for every  *)
(* non-empty value of at most MaxValueLen characters over EscapeAlphabet     *)

\* " ' ` space tab SOH DEL , = \ A ~ and e-acute
EscapeAlphabet == {34, 39, 96, 32, 9, 1, 127, 44, 61, 92, 65, 126, 233}

InitEscape ==
    /\ MainIdle
    /\ Direct
    /\ moduleCache = EmptyCache
    /\ prev = NoCall
    /\ call \in {[op |-> "escape", value |-> v, done |-> FALSE, out |-> <<>>] :
                    v \in SeqsUpTo(EscapeAlphabet, MaxValueLen) \ {<<>>}}

\* value = dangerousChars..., whiteChars..., escapeChars.ReplaceAllString(value, ...)
CallEscape ==
    /\ call.op = "escape"
    /\ ~call.done
    /\ call' = [call EXCEPT !.done = TRUE, !.out = escapeTagValue(call.value)]
    /\ UNCHANGED <<mainVars, probe, moduleCache, prev>>

NextEscape == CallEscape

SpecEscape == InitEscape /\ [][NextEscape]_vars

IsQuote(c) == c = 34 \/ c = 39 \/ c = 96

\* ASCII whitespace and control characters
IsWhiteOrControl(c) == c <= 32 \/ c = 127

RECURSIVE Rendered(_)
\* the value with each quote as ~, each whitespace or control character as
\* backslash-space, and a backslash in front of each comma and equals sign
Rendered(value) ==
    IF value = <<>> THEN <<>>
    ELSE LET c == Head(value) IN
         (IF IsQuote(c) THEN <<126>>
          ELSE IF IsWhiteOrControl(c) THEN <<92, 32>>
          ELSE IF c = 44 \/ c = 61 THEN <<92, c>>
          ELSE <<c>>) \o Rendered(Tail(value))

-----------------------------------------------------------------------------
(* SpecDiag: one TxrDiag on a module, for every class, EEPROM length, image  *)
(* and device answer of DiagModules                                          *)

DiagLens == {0, 256, 352, 353, 356, 361, 362, 512}

DiagModules ==
    {Module(t, l, id, rej) : t \in {1, ETH_MODULE_SFF_8472}, l \in DiagLens,
                             id \in {"acme", "dark"}, rej \in {{}, {DIAG_OFFSET}}}

InitDiag ==
    /\ MainIdle
    /\ Direct
    /\ moduleCache = EmptyCache
    /\ prev = NoCall
    /\ call \in {[op |-> "TxrDiag", m |-> m, done |-> FALSE, r |-> NoDiag] :
                    m \in DiagModules}

CallTxrDiag ==
    /\ call.op = "TxrDiag"
    /\ ~call.done
    /\ call' = [call EXCEPT !.done = TRUE, !.r = TxrDiag(call.m)]
    /\ UNCHANGED <<mainVars, probe, moduleCache, prev>>

NextDiag == CallTxrDiag

SpecDiag == InitDiag /\ [][NextDiag]_vars

\* the big-endian word i (0..4) of the diagnostic page of an image
PageWord(id, i) ==
    ImageByte(id, DIAG_OFFSET + 2 * i) * 256 + ImageByte(id, DIAG_OFFSET + 2 * i + 1)

\* TxrDiag has returned a record for a module whose EEPROM holds the page
DiagDecoded ==
    /\ call.op = "TxrDiag" /\ call.done
    /\ ~call.r.panic /\ call.r.err = ""
    /\ call.m.eeprom_len >= DIAG_OFFSET + DIAG_LEN

\* the five measurements as words of the page over the divisors of the claim
C18_Words ==
    DiagDecoded =>
        /\ call.r.reqs = <<[offset |-> DIAG_OFFSET, len |-> DIAG_LEN]>>
        /\ call.r.metrics.temperature_C = <<PageWord(call.m.image, 0), 256>>
        /\ call.r.metrics.voltage_V     = <<PageWord(call.m.image, 1), 10000>>
        /\ call.r.metrics.bias_mA       = <<PageWord(call.m.image, 2), 500>>
        /\ call.r.metrics.transmit_mW   = <<PageWord(call.m.image, 3), 10000>>
        /\ call.r.metrics.receive_mW    = <<PageWord(call.m.image, 4), 10000>>

\* the page of the image holds the bytes 27 09 80 79 0b 5d 14 ce 16 02
ExamplePage ==
    Images[call.m.image].diag = <<39, 9, 128, 121, 11, 93, 20, 206, 22, 2>>

-----------------------------------------------------------------------------
(* The module cache: its keys, and the workers that use it together *)

\* C19: every key of the module cache is a serial that passes validSerial.
C19_CacheKeysValid ==
    \A sn \in DOMAIN moduleCache : validSerial(sn)

\* worker w is about to write the cache while worker o is at its lookup or
\* insert
TogetherAtCache(w, o) ==
    /\ crashed = ""
    /\ w \in DOMAIN workers /\ o \in DOMAIN workers /\ w # o
    /\ workers[w].pc = "insert"
    /\ atCache(workers[o])

\* C20: when a partition worker is at the insert of ModuleInfo and another is
\* at its lookup or insert, either of them can take its step next: nothing
\* makes one wait for the other.
C20_CacheAccessUnordered ==
    \A w, o \in WorkerKeys :
        TogetherAtCache(w, o) =>
            /\ ENABLED Insert(w)
            /\ ENABLED (Lookup(o) \/ Insert(o))

\* two partition workers of one pass are at the cache, one about to insert
\* and the other about to look up
C20_Witness ==
    /\ phase = "spawn"
    /\ Cardinality(DOMAIN series) >= 2
    /\ \E w, o \in WorkerKeys :
        /\ TogetherAtCache(w, o)
        /\ w # Main /\ o # Main
        /\ workers[o].pc = "lookup"

-----------------------------------------------------------------------------
(* moduleInfo against reading each field on its own *)

\* the EEPROM bytes [offset, offset+length) of field i of an image
FieldBytes(id, i) ==
    [k \in 1..txrEepromStatic[i].length |->
        ImageByte(id, txrEepromStatic[i].offset + k - 1)]

\* field i decoded from its own bytes
FieldAlone(id, i) == decodeStatic(FieldBytes(id, i), txrEepromStatic[i].decoder)

\* a supported module whose EEPROM covers every field and serves every read
CoversAllFields(m) ==
    /\ m.tpe = ETH_MODULE_SFF_8472
    /\ m.eeprom_len >= FieldEnd(Len(txrEepromStatic) - 1)
    /\ m.rej = {}

\* C21: on a supported module whose EEPROM covers all fields, for every flag
\* set, moduleInfo returns an entry for exactly the fields whose flag bit is in
\* the set, and each entry is the decoding of the field's own EEPROM bytes.
C21_CoalescedEqualsFieldwise ==
    (call.op = "moduleInfo" /\ call.done /\ CoversAllFields(call.m)) =>
        /\ call.err = "" /\ ~call.panic
        /\ DOMAIN call.ret =
              {txrEepromStatic[i].name : i \in SelectedFields(call.flags)}
        /\ \A i \in SelectedFields(call.flags) :
              call.ret[txrEepromStatic[i].name] = FieldAlone(call.m.image, i)

\* vendor, oui and product came out of one read, and serial and mfgdate out
\* of the span that is still pending when the table is exhausted
C21_Witness ==
    /\ call.op = "moduleInfo" /\ call.done /\ CoversAllFields(call.m)
    /\ call.flags = TXR_MI_ALL
    /\ Len(call.reqs) = 2
    /\ call.reqs[2] = [offset |-> 68, len |-> 24]
    /\ call.ret["product"] = <<83, 70, 80, 49, 48>>
    /\ call.ret["mfgdate"] = <<50, 48, 48, 49, 48, 49>>

-----------------------------------------------------------------------------
(* SpecSelect: GetTxrInfoFlags on a list of names, then moduleInfo with the *)
(* flags it returned                                                        *)

MaxNames == 2

\* the names of the table, and one that is not in it
SelectNames ==
    {txrEepromStatic[i].name : i \in 1..Len(txrEepromStatic)} \cup {"bogus"}

SelectModules ==
    { Module(ETH_MODULE_SFF_8472, ETH_MODULE_SFF_8472_LEN, "acme", {}),
      Module(ETH_MODULE_SFF_8472, 256, "dark", {}) }

InitSelect ==
    /\ MainIdle
    /\ Direct
    /\ moduleCache = EmptyCache
    /\ prev = NoCall
    /\ \E str \in SeqsUpTo(SelectNames, MaxNames), m \in SelectModules :
          call = [op |-> "select", str |-> str, m |-> m, pc |-> "flags",
                  flags |-> 0, flagsErr |-> "",
                  ret |-> EmptyTags, err |-> "", panic |-> FALSE, reqs |-> <<>>]

\* flags, err := GetTxrInfoFlags(str)
CallGetTxrInfoFlags ==
    /\ call.op = "select"
    /\ call.pc = "flags"
    /\ \E r \in {GetTxrInfoFlags(call.str)} :
       call' = [call EXCEPT !.flags = r.ret, !.flagsErr = r.err,
                            !.pc = IF r.err = "" THEN "info" ELSE "rejected"]
    /\ UNCHANGED <<mainVars, probe, moduleCache, prev>>

\* e.moduleInfo(flags) with the flags of an accepted list
CallModuleInfoByName ==
    /\ call.op = "select"
    /\ call.pc = "info"
    /\ \E r \in {moduleInfo(call.m, call.flags)} :
       call' = [call EXCEPT !.pc = "done", !.ret = r.ret, !.err = r.err,
                            !.panic = r.panic, !.reqs = r.reqs]
    /\ UNCHANGED <<mainVars, probe, moduleCache, prev>>

NextSelect == CallGetTxrInfoFlags \/ CallModuleInfoByName

SpecSelect == InitSelect /\ [][NextSelect]_vars

\* the names of the seven fields
FieldNameSet == {txrEepromStatic[i].name : i \in FieldIdx}

\* the names of a list
NamesOf(str) == {str[k] : k \in 1..Len(str)}

\* C22: for every accepted list of field names, moduleInfo with the resulting
\* flags decodes exactly the named fields; each of the seven fields has a flag
\* bit of its own.
C22_SelectionByName ==
    /\ (call.op = "select" /\ call.pc # "flags" /\ Len(call.str) = 1
           /\ call.str[1] \in FieldNameSet) =>
          \A j \in FieldIdx :
              txrEepromStatic[j].name # call.str[1] =>
                  BitAnd(txrEepromStatic[j].flag, call.flags) = 0
    /\ (call.op = "select" /\ call.pc = "done" /\ NamesOf(call.str) \subseteq FieldNameSet) =>
          /\ call.err = "" /\ ~call.panic
          /\ DOMAIN call.ret = NamesOf(call.str)

-----------------------------------------------------------------------------
(* Order within a partition *)

\* the interfaces of the records emitted so far for the series s, in the
\* order of their emission
EmittedOf(s) ==
    LET InSeries(r) == \E n \in 1..Len(s) : s[n] = r.iface
        recs == SelectSeq(emitted, InSeries)
    IN  [n \in 1..Len(recs) |-> recs[n].iface]

\* the names of the sorted list that are in the series s, in list order
ListOrderOf(s) ==
    LET InSeries(name) == \E n \in 1..Len(s) : s[n] = name
    IN  SelectSeq(ifaces, InSeries)

\* worker w has issued a device request for the interface it is at
RequestIssued(w) ==
    w.i <= Len(w.s) /\ w.pc \in {"serial", "lookup", "full", "insert", "diag", "emit"}

\* C23: a partition's series is in the order of the sorted interface list;
\* the records of a partition are emitted in that order, and a worker is at
\* the device requests of an interface only when the record of every earlier
\* interface of its series has been emitted and none of a later one.
C23_OrderWithinPartition ==
    \A k \in DOMAIN workers :
        LET w == workers[k] IN
        /\ w.s = ListOrderOf(w.s)
        /\ w.i >= 1 /\ w.i <= Len(w.s) + 1
        /\ EmittedOf(w.s) = SubSeq(w.s, 1, w.i - 1)

\* in a pass of two partitions a worker has issued a request for the second
\* interface of its series, after the record of the first
C23_Witness ==
    /\ Cardinality(DOMAIN series) = 2
    /\ \E k \in DOMAIN workers :
        /\ k # Main
        /\ Len(workers[k].s) = 2
        /\ workers[k].i = 2
        /\ RequestIssued(workers[k])
        /\ EmittedOf(workers[k].s) = <<workers[k].s[1]>>
        /\ Len(emitted) = 2

-----------------------------------------------------------------------------
(* Records and the end of the workers *)

\* every partition of the pass has a worker, and every worker has returned
AllWorkersFinished ==
    /\ DOMAIN workers = DOMAIN series
    /\ \A k \in DOMAIN workers : workers[k].pc = "done"

\* C24: in a pass of two or more partitions no record has been passed to the
\* sink before every partition worker of the pass has finished.
C24_NoPartialResults ==
    (Cardinality(DOMAIN series) >= 2 /\ emitted # <<>>) => AllWorkersFinished

-----------------------------------------------------------------------------
(* The module cache over time *)

\* C25: a serial once in the module cache is in it in every later state, and
\* the Tag Set stored under a serial that passes validSerial is never replaced
\* by a different one.
C25_CacheEntriesStable ==
    [][\A sn \in DOMAIN moduleCache :
          /\ sn \in DOMAIN moduleCache'
          /\ validSerial(sn) => moduleCache'[sn] = moduleCache[sn]]_vars

-----------------------------------------------------------------------------
(* What changes the module cache *)

\* C26: the module cache changes only in a ModuleInfo call with allow-cache
\* that completes its full field read without error; a call without
\* allow-cache, a call that fails and a call served from the cache leave it
\* as it was.
C26_CacheFrame ==
    [][moduleCache' # moduleCache =>
          /\ call'.op = "ModuleInfo"
          /\ call'.flags = TXR_MI_ALLOW_CACHE
          /\ call'.err = "" /\ ~call'.panic
          /\ ~call'.hit
          /\ Len(call'.reqs) > 1]_vars

\* a call without allow-cache has read every field of a module whose serial
\* is not in the cache, after an allow-cache call on another module had
\* stored an entry
C26_Witness ==
    /\ call.op = "ModuleInfo" /\ call.flags = TXR_MI_ALL
    /\ call.err = "" /\ ~call.panic
    /\ "serial" \in DOMAIN call.ret
    /\ call.ret["serial"] \notin DOMAIN moduleCache
    /\ prev.op = "ModuleInfo" /\ prev.flags = TXR_MI_ALLOW_CACHE
    /\ prev.err = "" /\ ~prev.panic /\ ~prev.hit
    /\ "serial" \in DOMAIN prev.ret
    /\ DOMAIN moduleCache = {prev.ret["serial"]}

-----------------------------------------------------------------------------
(* SpecInflux: one run of Exporter.Influxdb.  A goroutine runs              *)
(* DiscoverAndCollect on the unbuffered channel "lines" and then sends the  *)
(* sentinel; the caller receives and writes until it receives the sentinel. *)
(* The body of CollectIfacesSerially up to ch.Emit is one step here, and    *)
(* ModuleInfo one call: its interleavings are those of Spec.  A send on the *)
(* channel completes in the step in which the loop receives it.             *)

\* "\x00EOF"
EOF == <<0, 69, 79, 70>>

\* the answers of ETHTOOL_GMODULEINFO in a run of Influxdb: no such device,
\* a healthy module, and an EEPROM that ends where the serial field starts
InfluxAnswers ==
    { [err |-> "no such device", m |-> Module(0, 0, "acme", {})],
      [err |-> "", m |-> Module(ETH_MODULE_SFF_8472, ETH_MODULE_SFF_8472_LEN, "acme", {})],
      [err |-> "", m |-> Module(ETH_MODULE_SFF_8472, 68, "acme", {})] }

\* the arguments InfluxChan.Emit is called with in a run: each interface, with
\* or without the error of the open, the Tag Set and the Diagnostics Record
InfluxEmitArgs ==
    { <<i, e, t, d>> :
        i \in {IfacePool[n] : n \in 1..Len(IfacePool)},
        e \in {"", "no such device"},
        t \in {EmptyTags, moduleInfo(HealthyAcme, TXR_MI_ALL).ret},
        d \in {NoDiag, [isnil |-> FALSE, metrics |-> TxrDiag(HealthyAcme).metrics]} }

\* InfluxChan.Emit, looked up in the table of its results
InfluxEmitAt(iface, err, tags, metrics) == probe.line[<<iface, err, tags, metrics>>]

InitInflux ==
    /\ ifaces = <<>>
    /\ parallel \in Patterns
    /\ phase = "idle"
    /\ series = NoSeries
    /\ workers = NoWorkers
    /\ waitGroup = 0
    /\ emitted = <<>>
    /\ crashed = ""
    /\ pass = 0
    /\ SocketIdle
    /\ moduleCache = EmptyCache
    /\ probe = [info |-> ProbeOf(MainModules, MainFlags).info,
                diag |-> ProbeOf(MainModules, MainFlags).diag,
                line |-> [a \in InfluxEmitArgs |-> InfluxEmit(a[1], a[2], a[3], a[4])]]
    /\ call = NoCall
    /\ prev = NoCall

\* Influxdb: nowi := now.UnixNano(); lines := make(chan string); go func ()
Influxdb ==
    /\ call = NoCall
    /\ \E n \in NowValues :
        call' = [op |-> "Influxdb", nowi |-> n, goroutine |-> "start",
                 reader |-> "recv", line |-> <<>>, written |-> <<>>, sentinels |-> 0]
    /\ UNCHANGED <<passVars, moduleCache, probe, prev, sockVars>>

\* the goroutine enters DiscoverAndCollect(InfluxChan(lines)): up to the
\* dispatch
InfluxDiscoverAndCollect ==
    /\ crashed = ""
    /\ call.op = "Influxdb"
    /\ call.goroutine = "start"
    /\ \E list \in IfaceLists :
        LET map == partitions(parallel, list) IN
        /\ ifaces' = list
        /\ series' = map
        /\ IF collectsSerially(map)
           THEN phase' = "serial" /\ workers' = [k \in {Main} |-> AtIface(list, 1)]
           ELSE phase' = "spawn" /\ workers' = NoWorkers
    /\ waitGroup' = 0
    /\ emitted' = <<>>
    /\ pass' = pass + 1
    /\ call' = [call EXCEPT !.goroutine = "collect"]
    /\ UNCHANGED <<parallel, moduleCache, crashed, probe, prev, sockVars>>

\* the body of CollectIfacesSerially for s[i], up to the call of ch.Emit: the
\* device-control call may never return
InfluxCollect(k) ==
    /\ Running(k, "open")
    /\ workers[k].i <= Len(workers[k].s)
    /\ \/ /\ Step(k, [workers[k] EXCEPT !.pc = "hung"])
       \/ \E a \in InfluxAnswers :
            LET w1   == opened(workers[k], a)
                info == ModuleInfo(a.m, txrInfoFlags, moduleCache)
                d    == TxrDiagAt(a.m)
            IN  IF a.err # "" THEN Step(k, w1)
                ELSE IF info.panic THEN Panic
                ELSE IF info.err # "" THEN Step(k, infoFailed(w1, info.err))
                ELSE IF d.panic THEN Panic
                ELSE /\ workers' = [workers EXCEPT
                                       ![k] = diagRead([w1 EXCEPT !.tags = info.ret], d)]
                     /\ moduleCache' = info.cache
                     /\ UNCHANGED <<ifaces, parallel, phase, series, waitGroup,
                                    emitted, crashed, pass, probe, call, prev, sockVars>>

\* line := <-lines, from the ch <- fmt.Sprintf(...) of worker k's Emit
InfluxReceive(k) ==
    /\ Running(k, "emit")
    /\ call.op = "Influxdb"
    /\ call.reader = "recv"
    /\ \E r \in {InfluxEmitAt(workers[k].s[workers[k].i], workers[k].err,
                              workers[k].tags, workers[k].diag)} :
        IF r.panic
        THEN /\ crashed' = "panic"
             /\ UNCHANGED <<workers, emitted, call>>
        ELSE /\ call' = [call EXCEPT !.reader = "got", !.line = r.line]
             /\ emitted' = Append(emitted, Record(workers[k]))
             /\ workers' = [workers EXCEPT
                               ![k] = AtIface(workers[k].s, workers[k].i + 1)]
             /\ UNCHANGED crashed
    /\ UNCHANGED <<ifaces, parallel, phase, series, waitGroup, moduleCache, pass,
                   probe, prev, sockVars>>

\* DiscoverAndCollect has returned: the goroutine is at lines <- "\x00EOF"
InfluxSentinel ==
    /\ crashed = ""
    /\ call.op = "Influxdb"
    /\ call.goroutine = "collect"
    /\ phase = "returned"
    /\ call' = [call EXCEPT !.goroutine = "sentinel"]
    /\ UNCHANGED <<passVars, moduleCache, probe, prev, sockVars>>

\* line := <-lines, from the goroutine's lines <- "\x00EOF"
InfluxReceiveSentinel ==
    /\ crashed = ""
    /\ call.op = "Influxdb"
    /\ call.goroutine = "sentinel"
    /\ call.reader = "recv"
    /\ call' = [call EXCEPT !.goroutine = "done", !.reader = "got", !.line = EOF,
                            !.sentinels = call.sentinels + 1]
    /\ UNCHANGED <<passVars, moduleCache, probe, prev, sockVars>>

\* for ...; line != "\x00EOF"; ... { fmt.Fprintf(writer, "%s %v\n", line, nowi) }
InfluxLoop ==
    /\ crashed = ""
    /\ call.op = "Influxdb"
    /\ call.reader = "got"
    /\ IF call.line = EOF
       THEN call' = [call EXCEPT !.reader = "exit"]
       ELSE call' = [call EXCEPT !.reader = "recv",
                         !.written = Append(call.written,
                                            InfluxdbWrite(call.line, call.nowi))]
    /\ UNCHANGED <<passVars, moduleCache, probe, prev, sockVars>>

InfluxWorker(k) ==
    \/ Spawn(k)
    \/ InfluxCollect(k)
    \/ InfluxReceive(k)
    \/ Return(k)

NextInflux ==
    \/ Influxdb
    \/ InfluxDiscoverAndCollect
    \/ Wait
    \/ InfluxSentinel
    \/ InfluxReceiveSentinel
    \/ InfluxLoop
    \/ \E k \in WorkerKeys : InfluxWorker(k)

SpecInflux == InitInflux /\ [][NextInflux]_vars

\* the run does not stop while some goroutine can take a step
InfluxFairness == WF_vars(NextInflux)

SpecInfluxFair == SpecInflux /\ InfluxFairness

-----------------------------------------------------------------------------
(* The sentinel and the lines of a run of Influxdb *)

\* the line of a record, as InfluxChan.Emit sends it
LineOf(rec) == InfluxEmit(rec.iface, rec.err, rec.tags, rec.metrics).line

\* the loop holds a line it has received and not yet written
LineInHand == call.reader = "got" /\ call.line # EOF

\* the goroutine is at the send of the sentinel, or past it
SentinelReady == call.goroutine \in {"sentinel", "done"}

\* C27: in a run of Influxdb the sentinel is sent at most once, and only when
\* every worker has returned and the line of every interface has been
\* received; the lines written are the lines emitted, in the order of their
\* receipt, each with the timestamp; once the sentinel has been received
\* every line has been written, and the loop exits on exactly one sentinel.
C27_SentinelAfterLastLine ==
    call.op = "Influxdb" =>
        /\ call.sentinels <= 1
        /\ SentinelReady =>
              /\ phase = "returned"
              /\ \A k \in DOMAIN workers : workers[k].pc = "done"
              /\ Len(emitted) = Len(ifaces)
        /\ Len(call.written) + (IF LineInHand THEN 1 ELSE 0) = Len(emitted)
        /\ \A n \in 1..Len(call.written) :
              call.written[n] = InfluxdbWrite(LineOf(emitted[n]), call.nowi)
        /\ LineInHand => call.line = LineOf(emitted[Len(emitted)])
        /\ call.sentinels = 1 => Len(call.written) = Len(ifaces)
        /\ call.reader = "exit" => call.sentinels = 1 /\ call.goroutine = "done"

\* the loop has exited after a pass of two partitions and three interfaces
C27_Witness ==
    /\ call.op = "Influxdb"
    /\ call.reader = "exit"
    /\ call.sentinels = 1
    /\ Cardinality(DOMAIN series) = 2
    /\ Len(ifaces) = 3
    /\ Len(call.written) = 3

-----------------------------------------------------------------------------
(* Termination of a run of Influxdb *)

\* a device-control call of some worker has not returned
SomeCallNeverReturns == \E k \in DOMAIN workers : workers[k].pc = "hung"

\* every worker has finished, DiscoverAndCollect has returned, the sentinel
\* has been sent and the loop of Influxdb has exited
PassTerminated ==
    /\ call.op = "Influxdb"
    /\ phase = "returned"
    /\ \A k \in DOMAIN workers : workers[k].pc = "done"
    /\ call.goroutine = "done"
    /\ call.reader = "exit"

\* every partition has its worker, and every worker has finished or is in a
\* call that does not return
WorkersSettled ==
    /\ call.op = "Influxdb"
    /\ call.goroutine # "start"
    /\ phase = "spawn" => DOMAIN workers = DOMAIN series
    /\ \A k \in DOMAIN workers : workers[k].pc \in {"done", "hung"}

\* C28: a run of Influxdb in which every device-control call returns
\* terminates: every worker finishes, DiscoverAndCollect returns and the loop
\* exits; when a call never returns, every other worker still finishes.
C28_PassTerminates ==
    <>(WorkersSettled /\ (SomeCallNeverReturns \/ PassTerminated))

\* the same with the death of the process counted as an end of the run
PassTerminatesUnlessProcessDies ==
    <>(crashed # "" \/ (WorkersSettled /\ (SomeCallNeverReturns \/ PassTerminated)))

=============================================================================
